---- MODULE Spec2Model ----
(***************************************************************************)
(* crabdeposit: the UDT identifier codec (udt.py), the record model        *)
(* (records.py), the deposit builder (deposit_builder.py) and the deposit  *)
(* index (deposit.py).                                                     *)
(*                                                                         *)
(* Python values are modelled as records [t, v]: t is the Python type      *)
(* ("bytes", "str", "None") or the name of the exception the call raised,  *)
(* v the sequence of byte values (bytes) or of character codes (str).      *)
(***************************************************************************)
EXTENDS Integers, Sequences, FiniteSets, TLC

\* ------------------------------------------------------------------------
\* Python values
\* ------------------------------------------------------------------------
Bytes(v) == [t |-> "bytes", v |-> v]
Str(v) == [t |-> "str", v |-> v]
None == [t |-> "None", v |-> <<>>]
Raise(e) == [t |-> e, v |-> <<>>]
IsBytes(x) == x.t = "bytes"
IsStr(x) == x.t = "str"
IsRaise(x) == x.t \notin {"bytes", "str", "None"}

Min(a, b) == IF a < b THEN a ELSE b

\* s[a:b] of Python, 0-based, clamped to the length of s
Slice(s, a, b) == SubSeq(s, a + 1, Min(b, Len(s)))

\* s[a:] of Python
SliceFrom(s, a) == SubSeq(s, a + 1, Len(s))

\* str.startswith
StartsWith(s, p) == Len(s) >= Len(p) /\ SubSeq(s, 1, Len(p)) = p

RECURSIVE SplitAcc(_, _, _)
SplitAcc(s, sep, cur) ==
    IF s = <<>> THEN <<cur>>
    ELSE IF StartsWith(s, sep)
         THEN <<cur>> \o SplitAcc(SliceFrom(s, Len(sep)), sep, <<>>)
         ELSE SplitAcc(Tail(s), sep, Append(cur, Head(s)))

\* str.split(sep): the pieces between the non-overlapping occurrences of sep,
\* scanned from the left
Split(s, sep) == SplitAcc(s, sep, <<>>)

\* str.lower on ASCII: 'A'..'Z' (65..90) become 'a'..'z'
Lower(s) == [i \in 1..Len(s) |-> IF s[i] >= 65 /\ s[i] <= 90 THEN s[i] + 32 ELSE s[i]]

RECURSIVE WeightedSum(_, _, _)
WeightedSum(s, i, j) ==
    IF s = <<>> THEN 0 ELSE Head(s) * (i + j) + WeightedSum(Tail(s), i, j + 1)

\* hashlib.sha256(s).digest(): 32 bytes, a function of the text alone.  The
\* digest is a stand-in mixing function: like the truncated digests of the
\* code it is deterministic and may collide.
Sha256(s) == [i \in 1..32 |-> (WeightedSum(s, i, 1) + 7 * Len(s) + 13 * i) % 256]

\* one hex digit of bytes.hex(): '0'..'9' (48..57), 'a'..'f' (97..102)
HexDigit(d) == IF d < 10 THEN 48 + d ELSE 87 + d

RECURSIVE Hex(_)
\* bytes.hex(): two lowercase digits per byte
Hex(b) ==
    IF b = <<>> THEN <<>>
    ELSE <<HexDigit(Head(b) \div 16), HexDigit(Head(b) % 16)>> \o Hex(Tail(b))

\* value of one hex digit for bytes.fromhex, -1 when the character is none
HexVal(c) ==
    IF c >= 48 /\ c <= 57 THEN c - 48
    ELSE IF c >= 97 /\ c <= 102 THEN c - 87
    ELSE IF c >= 65 /\ c <= 70 THEN c - 55
    ELSE -1

RECURSIVE FromHexRaw(_)
\* bytes.fromhex: pairs of hex digits of either case, spaces between the pairs
\* skipped; a -1 element marks the ValueError of an odd digit or a non-digit
FromHexRaw(s) ==
    IF s = <<>> THEN <<>>
    ELSE IF Head(s) = 32 THEN FromHexRaw(Tail(s))
    ELSE IF Len(s) < 2 \/ HexVal(s[1]) < 0 \/ HexVal(s[2]) < 0 THEN <<-1>>
    ELSE <<16 * HexVal(s[1]) + HexVal(s[2])>> \o FromHexRaw(SliceFrom(s, 2))

FromHexOk(s) == \A i \in 1..Len(FromHexRaw(s)) : FromHexRaw(s)[i] >= 0

RECURSIVE MulAdd(_, _, _)
\* le * mul + carry on a little-endian base-256 number without leading zeros
MulAdd(le, mul, carry) ==
    IF le = <<>>
    THEN IF carry = 0 THEN <<>> ELSE <<carry % 256>> \o MulAdd(<<>>, mul, carry \div 256)
    ELSE <<(Head(le) * mul + carry) % 256>>
         \o MulAdd(Tail(le), mul, (Head(le) * mul + carry) \div 256)

RECURSIVE DecToLE(_, _)
DecToLE(digits, acc) ==
    IF digits = <<>> THEN acc
    ELSE DecToLE(Tail(digits), MulAdd(acc, 10, Head(digits) - 48))

IsDigits(s) == s # <<>> /\ \A i \in 1..Len(s) : s[i] >= 48 /\ s[i] <= 57

\* int(s) for a decimal literal with an optional sign: ok is FALSE for the
\* ValueError, neg the sign, mag the magnitude as little-endian base-256
ParseInt(s) ==
    LET signed == s # <<>> /\ s[1] \in {43, 45}
        digits == IF signed THEN Tail(s) ELSE s
    IN  IF ~IsDigits(digits) THEN [ok |-> FALSE, neg |-> FALSE, mag |-> <<>>]
        ELSE [ok |-> TRUE,
              neg |-> signed /\ s[1] = 45 /\ DecToLE(digits, <<>>) # <<>>,
              mag |-> DecToLE(digits, <<>>)]

Reverse(s) == [i \in 1..Len(s) |-> s[Len(s) + 1 - i]]

\* width in bytes of the ">Q" format of struct.pack
PackWidth == 8

\* struct.pack(">Q", n) succeeds for 0 <= n < 2^64
PackOk(n) == ~n.neg /\ Len(n.mag) <= PackWidth

\* struct.pack(">Q", n): 8 bytes, big-endian
PackQ(n) == Reverse(n.mag \o [i \in 1..(PackWidth - Len(n.mag)) |-> 0])

\* ------------------------------------------------------------------------
\* udt.py
\* ------------------------------------------------------------------------
CanonicalPrefix == <<117, 100, 116, 49, 95, 95>>    \* "udt1__"
HexPrefix == <<117, 100, 116, 49, 95>>              \* "udt1_"
Sep2 == <<95, 95>>                                  \* "__"
Sep1 == <<95>>                                      \* "_"

string_udt(bin_udt) ==
    IF IsBytes(bin_udt)
    THEN IF bin_udt.v = <<>> THEN Raise("IndexError")
         ELSE IF bin_udt.v[1] = 2 \/ bin_udt.v[1] = 3
         THEN LET vdp == Slice(bin_udt.v, 1, 7)
                  did == Slice(bin_udt.v, 7, 15)
                  ts == Slice(bin_udt.v, 15, 21)
                  base == HexPrefix \o Hex(vdp) \o Sep1 \o Hex(did) \o Sep1 \o Hex(ts)
              IN  IF bin_udt.v[1] = 3
                  THEN Str(base \o Sep1 \o Hex(Slice(bin_udt.v, 21, 29)))
                  ELSE Str(base)
         ELSE Raise("RuntimeError")
    ELSE bin_udt

\* all 8 bytes of struct.pack(">Q", timestamp)
PackTimestamp_unsliced(timestamp) == PackQ(timestamp)

\* the 6 timestamp bytes of a Compact Key: struct.pack(">Q", timestamp)[2:8]
PackTimestamp(timestamp) == Slice(PackQ(timestamp), 2, 8)

\* binary_udt on a string that starts with "udt1__"
BinaryFromCanonical(s) ==
    LET udt_cmps == Split(SliceFrom(s, 6), Sep2)
    IN  IF Len(udt_cmps) < 4 THEN Raise("IndexError")
        ELSE LET vdp == Slice(Sha256(udt_cmps[1] \o Sep2 \o udt_cmps[2]), 0, 6)
                 did == Slice(Sha256(Lower(udt_cmps[3])), 0, 8)
                 timestamp == ParseInt(udt_cmps[4])
             IN  IF ~timestamp.ok THEN Raise("ValueError")
                 ELSE IF ~PackOk(timestamp) THEN Raise("struct.error")
                 ELSE IF Len(udt_cmps) > 4
                 THEN Bytes(<<3>> \o vdp \o did \o PackTimestamp(timestamp)
                            \o Slice(Sha256(udt_cmps[5]), 0, 8))
                 ELSE Bytes(<<2>> \o vdp \o did \o PackTimestamp(timestamp))

\* the Compact Hex branch with did and ts read from each other's component
BinaryFromHex_swapped(s) ==
    LET udt_cmps == Split(SliceFrom(s, 5), Sep1)
    IN  IF ~FromHexOk(udt_cmps[1]) THEN Raise("ValueError")
        ELSE IF Len(udt_cmps) < 2 THEN Raise("IndexError")
        ELSE IF ~FromHexOk(udt_cmps[2]) THEN Raise("ValueError")
        ELSE IF Len(udt_cmps) < 3 THEN Raise("IndexError")
        ELSE IF ~FromHexOk(udt_cmps[3]) THEN Raise("ValueError")
        ELSE IF Len(udt_cmps) > 3 /\ ~FromHexOk(udt_cmps[4]) THEN Raise("ValueError")
        ELSE LET vdp == FromHexRaw(udt_cmps[1])
                 did == FromHexRaw(udt_cmps[3])
                 ts == FromHexRaw(udt_cmps[2])
             IN  IF Len(udt_cmps) > 3
                 THEN Bytes(<<3>> \o vdp \o did \o ts \o FromHexRaw(udt_cmps[4]))
                 ELSE Bytes(<<2>> \o vdp \o did \o ts)

\* binary_udt on a string that starts with "udt1_" and not with "udt1__"
BinaryFromHex(s) ==
    LET udt_cmps == Split(SliceFrom(s, 5), Sep1)
    IN  IF ~FromHexOk(udt_cmps[1]) THEN Raise("ValueError")
        ELSE IF Len(udt_cmps) < 2 THEN Raise("IndexError")
        ELSE IF ~FromHexOk(udt_cmps[2]) THEN Raise("ValueError")
        ELSE IF Len(udt_cmps) < 3 THEN Raise("IndexError")
        ELSE IF ~FromHexOk(udt_cmps[3]) THEN Raise("ValueError")
        ELSE IF Len(udt_cmps) > 3 /\ ~FromHexOk(udt_cmps[4]) THEN Raise("ValueError")
        ELSE LET vdp == FromHexRaw(udt_cmps[1])
                 did == FromHexRaw(udt_cmps[2])
                 ts == FromHexRaw(udt_cmps[3])
             IN  IF Len(udt_cmps) > 3
                 THEN Bytes(<<3>> \o vdp \o did \o ts \o FromHexRaw(udt_cmps[4]))
                 ELSE Bytes(<<2>> \o vdp \o did \o ts)

\* binary_udt without the early return of a bytes argument: bytes.startswith
\* of a str raises TypeError
binary_udt_reparse(big_udt) ==
    IF IsBytes(big_udt) THEN Raise("TypeError")
    ELSE IF ~IsStr(big_udt) THEN Raise("AttributeError")
    ELSE IF StartsWith(big_udt.v, CanonicalPrefix) THEN BinaryFromCanonical(big_udt.v)
    ELSE IF StartsWith(big_udt.v, HexPrefix) THEN BinaryFromHex(big_udt.v)
    ELSE Raise("NameError")

\* the final else returns the undefined name udt: NameError
binary_udt(big_udt) ==
    IF IsBytes(big_udt) THEN big_udt
    ELSE IF ~IsStr(big_udt) THEN Raise("AttributeError")
    ELSE IF StartsWith(big_udt.v, CanonicalPrefix) THEN BinaryFromCanonical(big_udt.v)
    ELSE IF StartsWith(big_udt.v, HexPrefix) THEN BinaryFromHex(big_udt.v)
    ELSE Raise("NameError")

RECURSIVE StripZeros(_)
StripZeros(s) == IF s # <<>> /\ Head(s) = 48 THEN StripZeros(Tail(s)) ELSE s

\* '{:012x}'.format(n): lowercase hex, the sign first, zero-padded to 12 columns
Format012x(n) ==
    LET digits == StripZeros(Hex(Reverse(n.mag)))
        body == IF digits = <<>> THEN <<48>> ELSE digits
        sign == IF n.neg THEN <<45>> ELSE <<>>
        pad == 12 - Len(sign) - Len(body)
    IN  sign \o [i \in 1..pad |-> 48] \o body

\* small_udt on bytes with the tag of an Item Key reset and nothing stripped
small_udt_keep_instance(big_udt) ==
    IF IsBytes(big_udt)
    THEN IF big_udt.v = <<>> THEN Raise("IndexError")
         ELSE IF big_udt.v[1] = 2 THEN big_udt
         ELSE IF big_udt.v[1] = 3 THEN Bytes(<<2>> \o Tail(big_udt.v))
         ELSE Raise("RuntimeError")
    ELSE big_udt

small_udt(big_udt) ==
    IF IsBytes(big_udt)
    THEN IF big_udt.v = <<>> THEN Raise("IndexError")
         ELSE IF big_udt.v[1] = 2 THEN big_udt
         ELSE IF big_udt.v[1] = 3
         THEN Bytes(<<2>> \o Slice(big_udt.v, 1, 7) \o Slice(big_udt.v, 7, 15)
                    \o Slice(big_udt.v, 15, 21))
         ELSE Raise("RuntimeError")
    ELSE IF ~IsStr(big_udt) THEN Raise("AttributeError")
    ELSE IF StartsWith(big_udt.v, CanonicalPrefix)
    THEN LET udt_cmps == Split(SliceFrom(big_udt.v, 6), Sep2)
         IN  IF Len(udt_cmps) < 4 THEN Raise("IndexError")
             ELSE LET vdp == Slice(Hex(Sha256(udt_cmps[1] \o Sep2 \o udt_cmps[2])), 0, 12)
                      did == Slice(Hex(Sha256(Lower(udt_cmps[3]))), 0, 16)
                      timestamp == ParseInt(udt_cmps[4])
                  IN  IF ~timestamp.ok THEN Raise("ValueError")
                      ELSE LET ts == Format012x(timestamp)
                               base == HexPrefix \o vdp \o Sep1 \o did \o Sep1 \o ts
                           IN  IF Len(udt_cmps) > 4
                               THEN Str(base \o Sep1
                                        \o Slice(Hex(Sha256(udt_cmps[5])), 0, 16))
                               ELSE Str(base)
    ELSE big_udt

\* ------------------------------------------------------------------------
\* Identifiers the operations are applied to
\* ------------------------------------------------------------------------
\* the characters of a decimal literal from its digits
Digits(d) == [i \in 1..Len(d) |-> 48 + d[i]]

\* A Canonical Name from its components; inst is <<>> (no instance
\* component) or <<id>>
CanonicalName(vendor, device, serial, epoch, inst) ==
    Str(CanonicalPrefix \o vendor \o Sep2 \o device \o Sep2 \o serial \o Sep2 \o epoch
        \o (IF inst = <<>> THEN <<>> ELSE Sep2 \o inst[1]))

Vendors == {<<118>>}                          \* "v"
Devices == {<<109>>}                          \* "m"
Serials == {<<115>>, <<83>>, <<116>>}         \* "s", "S", "t"
Instances == {<<>>, <<(<<49>>)>>, <<(<<50>>)>>, <<(<<>>)>>}   \* none, "1", "2", ""

Epoch0 == Digits(<<0>>)
Epoch5 == Digits(<<5>>)
\* 2^48, the first value that needs more than the 6 stored bytes
Epoch2p48 == Digits(<<2, 8, 1, 4, 7, 4, 9, 7, 6, 7, 1, 0, 6, 5, 6>>)
\* 2^64 - 1, the largest value ">Q" packs
Epoch2p64m1 == Digits(<<1, 8, 4, 4, 6, 7, 4, 4, 0, 7, 3, 7, 0, 9, 5, 5, 1, 6, 1, 5>>)
\* 2^64, which ">Q" rejects
Epoch2p64 == Digits(<<1, 8, 4, 4, 6, 7, 4, 4, 0, 7, 3, 7, 0, 9, 5, 5, 1, 6, 1, 6>>)

\* epoch-seconds components that struct.pack(">Q") accepts
PackableEpochs == {Epoch0, Epoch5, Epoch2p48, Epoch2p64m1}
Epochs == PackableEpochs \cup {Epoch2p64}

NamesWith(epochs, instances) ==
    {CanonicalName(v, d, s, e, i) :
        v \in Vendors, d \in Devices, s \in Serials, e \in epochs, i \in instances}

CanonicalNames == NamesWith(Epochs, Instances)
\* the Canonical Names without and with an instance component whose epoch
\* seconds struct.pack(">Q") accepts
GroupNames == NamesWith(PackableEpochs, {<<>>})
ItemNames == NamesWith(PackableEpochs, Instances \ {<<>>})

\* field values of the Compact Keys given to the codec directly
VdpFields == {<<0, 0, 0, 0, 0, 0>>, <<0, 10, 171, 255, 1, 16>>}
DidFields == {<<0, 0, 0, 0, 0, 0, 0, 0>>, <<9, 160, 15, 240, 255, 0, 1, 127>>}
TsFields == {<<0, 0, 0, 0, 0, 5>>, <<255, 0, 104, 57, 10, 176>>}
ImidFields == {<<0, 0, 0, 0, 0, 0, 0, 1>>, <<222, 173, 190, 239, 0, 9, 10, 255>>}

GroupKeys == {Bytes(<<2>> \o a \o b \o c) : a \in VdpFields, b \in DidFields, c \in TsFields}
ItemKeys ==
    {Bytes(<<3>> \o a \o b \o c \o d) :
        a \in VdpFields, b \in DidFields, c \in TsFields, d \in ImidFields}
CompactKeys == GroupKeys \cup ItemKeys

\* Compact Hex strings written by hand, in upper case
UpperHexNames ==
    {Str(HexPrefix \o <<48, 65, 49, 66, 50, 67, 51, 68, 52, 69, 53, 70>> \o Sep1
         \o <<70, 70, 48, 48, 70, 70, 48, 48, 65, 65, 49, 49, 66, 66, 50, 50>> \o Sep1
         \o <<48, 48, 48, 48, 48, 48, 48, 48, 48, 48, 48, 53>> \o tail) :
        tail \in {<<>>, Sep1 \o <<68, 69, 65, 68, 66, 69, 69, 70, 48, 48, 48, 49, 48, 50, 48, 51>>}}

\* the Compact Hex strings of the Compact Keys
HexNames == {string_udt(k) : k \in CompactKeys} \cup UpperHexNames

\* strings that are neither a Canonical Name nor a Compact Hex string
MalformedNames ==
    LET vms == <<118>> \o Sep2 \o <<109>> \o Sep2 \o <<115>>
        vdp == <<48, 97, 49, 98, 50, 99, 51, 100, 52, 101, 53, 102>>
        did == <<102, 102, 48, 48, 102, 102, 48, 48, 97, 97, 49, 49, 98, 98, 50, 50>>
        ts == <<48, 48, 48, 48, 48, 48, 48, 48, 48, 48, 48, 53>>
    IN  {Str(<<120, 100, 116, 49>> \o Sep2 \o vms \o Sep2 \o <<53>>), \* "xdt1__v__m__s__5"
         Str(CanonicalPrefix \o vms),                               \* "udt1__v__m__s"
         Str(CanonicalPrefix \o vms \o Sep2 \o <<120>>),             \* "udt1__v__m__s__x"
         Str(HexPrefix \o vdp \o Sep1 \o did),                      \* two hex fields
         Str(HexPrefix \o <<122, 122>> \o vdp \o Sep1 \o did \o Sep1 \o ts), \* "zz" in vdp
         Str(HexPrefix \o <<48, 97>> \o Sep1 \o <<102, 102>> \o Sep1 \o <<48, 53>>)}
                                                                    \* "udt1_0a_ff_05"

CodecInputs == CanonicalNames \cup CompactKeys \cup HexNames \cup MalformedNames

\* ------------------------------------------------------------------------
\* records.py
\* ------------------------------------------------------------------------
\* in-memory payloads: a numpy array of uint16 items, and a file-like object
\* positioned at the start of its content
NdArray(items) == [kind |-> "ndarray", v |-> items]
BufferedIO(content) == [kind |-> "buffer", v |-> content]

OctetStream == "application/octet-stream"

\* numpy.ndarray.tobytes(order="C") of uint16 items: two bytes each, low first
ToBytes(items) ==
    [i \in 1..(2 * Len(items)) |->
        IF i % 2 = 1 THEN items[(i + 1) \div 2] % 256 ELSE items[i \div 2] \div 256]

\* numpy.frombuffer(data, dtype = "uint16")
FromBuffer(data) == [i \in 1..(Len(data) \div 2) |-> data[2 * i - 1] + 256 * data[2 * i]]

\* the sha256 argument as __init__ keeps it: hex text is decoded, bytes are
\* kept, anything else is dropped
Sha256Arg(sha256) ==
    IF IsStr(sha256) THEN Bytes(FromHexRaw(sha256.v))
    ELSE IF IsBytes(sha256) THEN sha256
    ELSE None

\* DataRecord(udt, data, last_modified, mime_type = mime_type,
\* numerical_format = "uint16", sha256 = sha256, ...) given an in-memory
\* payload and no bin_udt: bin_udt is computed from udt, nothing checks sha256
DataRecord(udt, data, mime_type, sha256) ==
    [udt |-> udt, bin_udt |-> binary_udt(udt), raw_data |-> data,
     mime_type |-> IF data.kind = "ndarray" THEN OctetStream ELSE mime_type,
     sha256 |-> Sha256Arg(sha256)]

\* a Python list, and the tests of the branches of __init__
List(v) == [t |-> "list", v |-> v]
IsNdArray(data) == "kind" \in DOMAIN data /\ data.kind = "ndarray"
IsBufferedIO(data) == "kind" \in DOMAIN data /\ data.kind = "buffer"

MissingPayload == Raise("RuntimeError: Need at least Data or Data URI")

\* DataRecord.__init__(udt, data, last_modified, data_uri, mime_type,
\* domain_types, numerical_format, extents) up to line 89, statement by
\* statement: the exception it raises, or the record it leaves. Line 52
\* reads self.data_uri, which line 58 is the first to assign and the class
\* does not define: with raw_data None the read raises AttributeError, with
\* raw_data set the "and" never reaches it.
DataRecordInit(udt, data, data_uri, mime_type, domain_types, numerical_format, extents) ==
    LET octet_stream == Str(<<97, 112, 112, 108, 105, 99, 97, 116, 105, 111, 110, 47,
                              111, 99, 116, 101, 116, 45, 115, 116, 114, 101, 97, 109>>)
        raw_mime == IF IsNdArray(data) THEN octet_stream ELSE mime_type
        raw_extents == IF IsNdArray(data) /\ extents = None
                       THEN List(<<Len(data.v)>>) ELSE extents
    IN  IF ~IsBufferedIO(data) /\ ~IsNdArray(data) /\ data # None
        THEN Raise("RuntimeError: Data must be a NumPy NDArray, a file-like object, or None")
        ELSE IF data = None THEN Raise("AttributeError")
        ELSE IF raw_extents = None THEN Raise("RuntimeError: Data extents missing")
        ELSE IF raw_mime = None THEN Raise("RuntimeError: Mime type missing")
        ELSE IF IsRaise(binary_udt(udt)) THEN binary_udt(udt)
        ELSE IF numerical_format = None /\ ~IsNdArray(data)
        THEN Raise("RuntimeError: Numerical format missing")
        ELSE IF domain_types = None THEN Raise("RuntimeError: Domain types missing")
        ELSE IF domain_types.t # "list" THEN Raise("RuntimeError: Domain types must be a list")
        ELSE IF IsNdArray(data) /\ Len(domain_types.v) # 1
        THEN Raise("RuntimeError: Number of dimensions do not match")
        ELSE [t |-> "DataRecord", v |-> <<>>, udt |-> udt, raw_data |-> data,
              data_uri |-> data_uri, mime_type |-> raw_mime, extents |-> raw_extents,
              domain_types |-> domain_types,
              numerical_format |-> IF numerical_format = None THEN Str("uint16")
                                   ELSE numerical_format]

\* DataRecord.as_bytes()
as_bytes(record) ==
    IF record.raw_data.kind = "buffer" THEN Bytes(record.raw_data.v)
    ELSE Bytes(ToBytes(record.raw_data.v))

\* DataRecord.sha256(): the digest is computed only when none was given
sha256(record) ==
    IF record.sha256 = None THEN Bytes(Sha256(as_bytes(record).v)) ELSE record.sha256

\* DataRecord(udt = row["udt"], data = data, ..., bin_udt = row["udt_bin"],
\* mime_type = row["mime_type"], sha256 = row["sha256"]) as get_data_record
\* rebuilds it from a stored row
DataRecordOfRow(row) ==
    [udt |-> row.udt, bin_udt |-> row.udt_bin,
     raw_data |-> IF row.mime_type = OctetStream THEN NdArray(FromBuffer(row.data))
                  ELSE BufferedIO(row.data),
     mime_type |-> row.mime_type,
     sha256 |-> Sha256Arg(Bytes(row.sha256))]

\* AnnotationRecord(udt, ..., sha256, uuid): uuid is kept as str(uuid); 0
\* stands for the text "None" of an omitted uuid, other numbers for the text
\* of a UUID
\* field_dict maps names of custom fields to values, discard_field_list
\* lists the discard flags raised
AnnotationRecord(udt, uuid, field_dict, discard_field_list) ==
    [udt |-> udt, bin_udt |-> binary_udt(udt), uuid |-> uuid, field_dict |-> field_dict,
     discard_field_list |-> discard_field_list]

\* a float value of a custom field, and True
Float(n) == [t |-> "float", v |-> <<n>>]
True == [t |-> "bool", v |-> <<1>>]

FieldPrefix == <<102, 105, 101, 108, 100, 95>>                      \* "field_"
DiscardPrefix == <<100, 105, 115, 99, 97, 114, 100, 95>> \o FieldPrefix   \* "discard_field_"

\* the value a row holds in a column its schema names; a row is a dict, in
\* which the last column of a name is the one kept
ColumnValue(row, col_nm) ==
    LET at == {c \in DOMAIN row.extra : row.extra[c].col = col_nm}
    IN  row.extra[CHOOSE c \in at : \A e \in at : e <= c].val

\* AnnotationRecord(udt = row["udt"], ..., field_dict = field_dict,
\* discard_field_list = discard_field_list) as the queries rebuild it from a
\* stored row: a field per column named field_*, a flag per column named
\* discard_field_* that holds True
AnnotationRecordOfRow(row) ==
    LET IsField(e) == StartsWith(e.col, FieldPrefix)
        IsRaised(e) == StartsWith(e.col, DiscardPrefix) /\ ColumnValue(row, e.col) = True
        pfo_fields == SelectSeq(row.extra, IsField)
        raised == SelectSeq(row.extra, IsRaised)
    IN  [udt |-> row.udt, bin_udt |-> row.udt_bin, uuid |-> row.uuid,
         field_dict |-> [f \in {SliceFrom(pfo_fields[c].col, 6) : c \in DOMAIN pfo_fields}
                            |-> ColumnValue(row, FieldPrefix \o f)],
         discard_field_list |-> [c \in DOMAIN raised |-> SliceFrom(raised[c].col, 14)]]

\* uuid.UUID(text) raises ValueError on a text that is no UUID
UuidOk(uuid) == uuid # 0

\* ------------------------------------------------------------------------
\* Files: the table storage engine seen through pyarrow.parquet
\* ------------------------------------------------------------------------
DataOutUri == "crabdata.parquet"
AnnotationOutUri == "crabannotation.parquet"

TypeData == "CRAB_DATA_V1"
TypeAnnotation == "CRAB_ANNOTATION_V1"

\* key/value metadata of a file; has_* tell whether the key is present
NoMetadata ==
    [has_data_type |-> FALSE, data_type |-> "",
     has_contains_udts |-> FALSE, contains_udts |-> <<>>,
     has_references_udts |-> FALSE, references_udts |-> <<>>]

\* no file at the location
AbsentFile ==
    [state |-> "absent", metadata |-> NoMetadata, row_groups |-> <<>>, schema |-> <<>>]

\* ParquetWriter(uri, schema): the file is created or truncated; until close
\* it has no footer and cannot be opened for reading.  schema holds the names
\* of the columns after the fixed ones
NewWriter ==
    [state |-> "writing", metadata |-> NoMetadata, row_groups |-> <<>>, schema |-> <<>>]

\* writer.write_batch(batch)
WriteBatch(file, batch) == [file EXCEPT !.row_groups = Append(@, batch)]

\* writer.add_key_value_metadata({...}) followed by writer.close()
CloseData(file, catalog) ==
    [file EXCEPT !.state = "closed",
                 !.metadata = [NoMetadata EXCEPT !.has_data_type = TRUE,
                                                 !.data_type = TypeData,
                                                 !.has_contains_udts = TRUE,
                                                 !.contains_udts = catalog]]

CloseAnnotation(file, catalog) ==
    [file EXCEPT !.state = "closed",
                 !.metadata = [NoMetadata EXCEPT !.has_data_type = TRUE,
                                                 !.data_type = TypeAnnotation,
                                                 !.has_references_udts = TRUE,
                                                 !.references_udts = catalog]]

\* ------------------------------------------------------------------------
\* deposit.py
\* ------------------------------------------------------------------------
\* Deposit(): file indices (pfi) are those of Python, from 0
EmptyDeposit ==
    [parquet_uris |-> <<>>, parquet_files |-> <<>>, data_indicies |-> <<>>,
     annotation_indicies |-> <<>>, udt_map |-> <<>>]

InSeq(x, s) == \E i \in 1..Len(s) : s[i] = x

RECURSIVE Chunks21(_)
\* [s[i:i+21] for i in range(0, len(s), 21)]
Chunks21(s) == IF s = <<>> THEN <<>> ELSE <<Slice(s, 0, 21)>> \o Chunks21(SliceFrom(s, 21))

RECURSIVE Flatten(_)
\* the concatenation of a sequence of sequences
Flatten(groups) == IF groups = <<>> THEN <<>> ELSE Head(groups) \o Flatten(Tail(groups))

\* what one turn of the loop of set_deposit_files raises on a file, None
\* when the turn completes: pq.ParquetFile(uri) on a missing or unfinished
\* file, metadata[b"data_type"] and the catalog key on an absent key, the
\* final else on an unknown data_type
OpenError(file) ==
    IF file.state = "absent" THEN Raise("FileNotFoundError")
    ELSE IF file.state = "writing" THEN Raise("ArrowInvalid")
    ELSE IF ~file.metadata.has_data_type THEN Raise("KeyError")
    ELSE IF file.metadata.data_type = TypeData
    THEN (IF file.metadata.has_contains_udts THEN None ELSE Raise("KeyError"))
    ELSE IF file.metadata.data_type = TypeAnnotation
    THEN (IF file.metadata.has_references_udts THEN None ELSE Raise("KeyError"))
    ELSE Raise("RuntimeError")

\* the catalog entries read from a file that opens
CatalogChunks(file) ==
    Chunks21(IF file.metadata.data_type = TypeData THEN file.metadata.contains_udts
             ELSE file.metadata.references_udts)

\* the number of turns the loop completes: it stops at the first file that
\* raises
TurnsCompleted(parquet_uris, fs) ==
    LET bad == {i \in 1..Len(parquet_uris) : IsRaise(OpenError(fs[parquet_uris[i]]))}
    IN  IF bad = {} THEN Len(parquet_uris)
        ELSE (CHOOSE i \in bad : \A j \in bad : i <= j) - 1

\* the pfi appended to udt_map[k] by the turn on a file: one per catalog
\* entry equal to k
Appended(k, pfi, chunks) == [j \in 1..Cardinality({c \in DOMAIN chunks : chunks[c] = k}) |-> pfi]

\* Deposit.set_deposit_files(parquet_uris): [dep, raised].  parquet_uris is
\* replaced first; each completed turn appends the file to parquet_files,
\* its pfi (enumerate, from 0) to the indices of its type and to udt_map
set_deposit_files(dep, parquet_uris, fs) ==
    LET n == TurnsCompleted(parquet_uris, fs)
        file(i) == fs[parquet_uris[i]]
        IsData(pfi) == file(pfi + 1).metadata.data_type = TypeData
        IsAnnotation(pfi) == file(pfi + 1).metadata.data_type = TypeAnnotation
        pfis == [i \in 1..n |-> i - 1]
        keys == DOMAIN dep.udt_map
                    \cup UNION {{CatalogChunks(file(i))[c] : c \in DOMAIN CatalogChunks(file(i))}
                                    : i \in 1..n}
    IN  [dep |-> [parquet_uris |-> parquet_uris,
                  parquet_files |-> dep.parquet_files \o SubSeq(parquet_uris, 1, n),
                  data_indicies |-> dep.data_indicies \o SelectSeq(pfis, IsData),
                  annotation_indicies |->
                        dep.annotation_indicies \o SelectSeq(pfis, IsAnnotation),
                  udt_map |->
                        [k \in keys |->
                            (IF k \in DOMAIN dep.udt_map THEN dep.udt_map[k] ELSE <<>>)
                            \o Flatten([i \in 1..n |->
                                            Appended(k, i - 1, CatalogChunks(file(i)))])]],
         raised |-> IF n = Len(parquet_uris) THEN None
                    ELSE OpenError(file(n + 1))]

\* a lookup of udt_map by the Compact Key itself
get_referencing_indicies_exact(dep, udt) ==
    LET budt == binary_udt(udt)
    IN  IF budt.v \in DOMAIN dep.udt_map THEN dep.udt_map[budt.v] ELSE <<>>

\* Deposit.get_referencing_indicies(udt), for a udt binary_udt accepts
get_referencing_indicies(dep, udt) ==
    LET sbudt == small_udt(binary_udt(udt))
    IN  IF sbudt.v \in DOMAIN dep.udt_map THEN dep.udt_map[sbudt.v] ELSE <<>>

\* the rows a query reads: for each pfi of try_pfis that is in indicies, the
\* rows of every row group of parquet_files[pfi], in order
RECURSIVE VisitedRows(_, _, _, _)
VisitedRows(dep, fs, try_pfis, indicies) ==
    IF try_pfis = <<>> THEN <<>>
    ELSE (IF InSeq(Head(try_pfis), indicies)
          THEN Flatten(fs[dep.parquet_files[Head(try_pfis) + 1]].row_groups)
          ELSE <<>>)
         \o VisitedRows(dep, fs, Tail(try_pfis), indicies)

\* Deposit.get_data_record(udt, full_string_match): a DataRecord, None or
\* the exception raised, as [t, recs]
QueryValue(t, recs) == [t |-> t, recs |-> recs]

\* get_data_record without the test of lines 82-84
get_data_record_any_form(dep, fs, udt, full_string_match) ==
    LET budt == binary_udt(udt)
    IN  IF IsRaise(budt) THEN QueryValue(budt.t, <<>>)
        ELSE IF IsRaise(small_udt(budt)) THEN QueryValue(small_udt(budt).t, <<>>)
        ELSE LET try_pfis == get_referencing_indicies(dep, budt)
                 Test(row) == row.udt_bin = budt /\ (~full_string_match \/ row.udt = udt)
                 rows == SelectSeq(VisitedRows(dep, fs, try_pfis, dep.data_indicies), Test)
             IN  IF rows = <<>> THEN QueryValue("None", <<>>)
                 ELSE IF "numerical_format" \notin DOMAIN rows[1]
                 THEN QueryValue("KeyError", <<>>)
                 ELSE IF rows[1].mime_type = OctetStream /\ Len(rows[1].data) % 2 # 0
                 THEN QueryValue("ValueError", <<>>)
                 ELSE QueryValue("DataRecord", <<DataRecordOfRow(rows[1])>>)

get_data_record(dep, fs, udt, full_string_match) ==
    LET budt == binary_udt(udt)
    IN  IF IsRaise(budt) THEN QueryValue(budt.t, <<>>)
        ELSE IF full_string_match /\ budt = udt THEN QueryValue("RuntimeError", <<>>)
        ELSE IF IsRaise(small_udt(budt)) THEN QueryValue(small_udt(budt).t, <<>>)
        ELSE LET try_pfis == get_referencing_indicies(dep, budt)
                 Test(row) == row.udt_bin = budt /\ (~full_string_match \/ row.udt = udt)
                 rows == SelectSeq(VisitedRows(dep, fs, try_pfis, dep.data_indicies), Test)
             IN  IF rows = <<>> THEN QueryValue("None", <<>>)
                 ELSE IF "numerical_format" \notin DOMAIN rows[1]
                 THEN QueryValue("KeyError", <<>>)
                 ELSE IF rows[1].mime_type = OctetStream /\ Len(rows[1].data) % 2 # 0
                 THEN QueryValue("ValueError", <<>>)
                 ELSE QueryValue("DataRecord", <<DataRecordOfRow(rows[1])>>)

\* Deposit.get_annotation_records(udt, full_string_match): the list of
\* AnnotationRecords or the exception raised
get_annotation_records(dep, fs, udt, full_string_match) ==
    LET budt == binary_udt(udt)
    IN  IF IsRaise(budt) THEN QueryValue(budt.t, <<>>)
        ELSE IF full_string_match /\ budt = udt THEN QueryValue("RuntimeError", <<>>)
        ELSE IF IsRaise(small_udt(budt)) THEN QueryValue(small_udt(budt).t, <<>>)
        ELSE LET try_pfis == get_referencing_indicies(dep, budt)
                 Test(row) == row.udt_bin = budt /\ (~full_string_match \/ row.udt = udt)
                 rows == SelectSeq(VisitedRows(dep, fs, try_pfis, dep.annotation_indicies), Test)
             IN  IF \E i \in 1..Len(rows) : "uuid" \notin DOMAIN rows[i]
                 THEN QueryValue("KeyError", <<>>)
                 ELSE QueryValue("list",
                                 [i \in 1..Len(rows) |-> AnnotationRecordOfRow(rows[i])])

\* the files whose row groups get_data_record reads, in order: lines 86-90
\* take the pfis of try_pfis that are in data_indicies, and line 107 returns
\* from the first file that holds a matching row
RECURSIVE ReadUntilMatch(_, _, _, _, _)
ReadUntilMatch(dep, fs, try_pfis, udt, full_string_match) ==
    IF try_pfis = <<>> THEN <<>>
    ELSE IF ~InSeq(Head(try_pfis), dep.data_indicies)
    THEN ReadUntilMatch(dep, fs, Tail(try_pfis), udt, full_string_match)
    ELSE LET uri == dep.parquet_files[Head(try_pfis) + 1]
             rows == Flatten(fs[uri].row_groups)
             hit == \E k \in DOMAIN rows :
                        /\ rows[k].udt_bin = binary_udt(udt)
                        /\ ~full_string_match \/ rows[k].udt = udt
         IN  <<uri>> \o (IF hit THEN <<>>
                         ELSE ReadUntilMatch(dep, fs, Tail(try_pfis), udt, full_string_match))

get_data_record_reads(dep, fs, udt, full_string_match) ==
    LET budt == binary_udt(udt)
    IN  IF IsRaise(budt) \/ (full_string_match /\ budt = udt) \/ IsRaise(small_udt(budt))
        THEN <<>>
        ELSE ReadUntilMatch(dep, fs, get_referencing_indicies(dep, budt), udt,
                            full_string_match)

\* a byte left as it is
Or1_keep(x) == x

\* 1 | x on a byte
Or1(x) == IF x % 2 = 0 THEN x + 1 ELSE x

\* Deposit.get_prefixed_udts(udt_prefix, full_string_match): the list of the
\* udt strings of the matching rows or the exception raised
get_prefixed_udts(dep, fs, udt_prefix, full_string_match) ==
    LET budt == binary_udt(udt_prefix)
    IN  IF IsRaise(budt) THEN QueryValue(budt.t, <<>>)
        ELSE IF full_string_match /\ budt = udt_prefix THEN QueryValue("RuntimeError", <<>>)
        ELSE IF budt.v = <<>> THEN QueryValue("IndexError", <<>>)
        ELSE IF IsRaise(small_udt(budt)) THEN QueryValue(small_udt(budt).t, <<>>)
        ELSE LET tbudt == <<Or1(budt.v[1])>> \o Tail(budt.v)
                 try_pfis == get_referencing_indicies(dep, budt)
                 Test(row) ==
                    /\ StartsWith(row.udt_bin.v, tbudt) \/ row.udt_bin = budt
                    /\ ~full_string_match \/ StartsWith(row.udt.v, udt_prefix.v)
                 rows == SelectSeq(VisitedRows(dep, fs, try_pfis, dep.data_indicies), Test)
             IN  QueryValue("list", [i \in 1..Len(rows) |-> rows[i].udt])

\* the rows find_annotation_record_matches takes from the files at pfis: a
\* file whose schema lacks the column is passed over, a null equals nothing
RECURSIVE MatchedRows(_, _, _, _, _)
MatchedRows(dep, fs, pfis, full_field_name, match_value) ==
    IF pfis = <<>> THEN <<>>
    ELSE LET pfo == fs[dep.parquet_files[Head(pfis) + 1]]
             Test(row) == ColumnValue(row, full_field_name) = match_value
         IN  (IF InSeq(full_field_name, pfo.schema)
              THEN SelectSeq(Flatten(pfo.row_groups), Test) ELSE <<>>)
             \o MatchedRows(dep, fs, Tail(pfis), full_field_name, match_value)

\* Deposit.find_annotation_record_matches(field_name, match_value): the list
\* of AnnotationRecords
find_annotation_record_matches(dep, fs, field_name, match_value) ==
    LET rows == MatchedRows(dep, fs, dep.annotation_indicies, FieldPrefix \o field_name,
                            match_value)
    IN  QueryValue("list", [i \in 1..Len(rows) |-> AnnotationRecordOfRow(rows[i])])

\* ------------------------------------------------------------------------
\* deposit_builder.py
\* ------------------------------------------------------------------------
\* per-record size estimate of the data batches, in KiB
data_size_approx_kb == 32

\* target size of a batch in KiB; the code's 65536 scaled down so that the
\* sources of the model span several batches
BatchTargetKb == 64

\* data_batch_size = int(65536 / data_size_approx_kb); the annotation loop
\* runs over range(data_batch_size) too
data_batch_size == BatchTargetKb \div data_size_approx_kb

\* the target of the code, 64 MiB in KiB, and the batch size it gives
TargetBatchKb == 65536

\* the batch size were the target 64 MiB of records of 32 MiB
full_data_batch_size_mib == TargetBatchKb \div (data_size_approx_kb * 1024)

full_data_batch_size == TargetBatchKb \div data_size_approx_kb

\* self.__dataset_compact_udts: None, a list (set_compact_binary_udts,
\* add_udt) or the set build() creates
CatalogNone == [kind |-> "None", list |-> <<>>, set |-> {}]
CatalogList(l) == [kind |-> "list", list |-> l, set |-> {}]
CatalogSet(S) == [kind |-> "set", list |-> <<>>, set |-> S]

\* the orders in which iterating a set can yield its elements
Orders(S) ==
    {o \in [1..Cardinality(S) -> S] : \A i, j \in 1..Cardinality(S) : i # j => o[i] # o[j]}

\* b"".join(catalog), a set iterated in the given order
Join(catalog, order) == Flatten(IF catalog.kind = "set" THEN order ELSE catalog.list)

RECURSIVE Batches_full_only(_, _)
\* a batching that writes only the batches the loop fills
Batches_full_only(recs, size) ==
    IF Len(recs) < size THEN <<>>
    ELSE <<SubSeq(recs, 1, size)>>
         \o Batches_full_only(SubSeq(recs, size + 1, Len(recs)), size)

RECURSIVE Batches(_, _)
\* the batches of the while loop over a source whose first record is pulled:
\* for i in range(size) takes up to size records; a batch cut short by
\* StopIteration is the last, and it is written whatever it holds
Batches(recs, size) ==
    IF Len(recs) < size THEN <<recs>>
    ELSE <<SubSeq(recs, 1, size)>> \o Batches(SubSeq(recs, size + 1, Len(recs)), size)

\* a row of the data table and a row of the annotation table: the columns
\* both schemas have, and one column of each that the other lacks
DataRow(record) ==
    [udt |-> record.udt, udt_bin |-> record.bin_udt, data |-> as_bytes(record).v,
     sha256 |-> sha256(record).v, mime_type |-> record.mime_type,
     numerical_format |-> "uint16"]

\* the columns the annotation schema gets after the fixed ones, lines
\* 218-221: one per custom field, and one per discard field named after
\* field_def, the last custom field
SchemaColumns(fields, discarded) ==
    [i \in 1..Len(fields) |-> FieldPrefix \o fields[i]]
    \o [j \in 1..Len(discarded) |-> DiscardPrefix \o fields[Len(fields)]]

\* the keys of annotation_extra_fields_dict, lines 237-240
BatchKeys(fields, discarded) ==
    {FieldPrefix \o fields[i] : i \in 1..Len(fields)}
    \cup {DiscardPrefix \o discarded[j] : j \in 1..Len(discarded)}

\* what the loop appends for a record under a key, lines 261-270
BatchValue(record, key) ==
    IF StartsWith(key, FieldPrefix)
    THEN (IF SliceFrom(key, 6) \in DOMAIN record.field_dict
          THEN record.field_dict[SliceFrom(key, 6)] ELSE None)
    ELSE (IF InSeq(SliceFrom(key, 14), record.discard_field_list) THEN True ELSE None)

\* RecordBatch.from_pydict takes the columns of the schema from the dict
AnnotationRow(record, schema) ==
    [udt |-> record.udt, udt_bin |-> record.bin_udt, uuid |-> record.uuid,
     extra |-> [c \in 1..Len(schema) |->
                    [col |-> schema[c], val |-> BatchValue(record, schema[c])]]]

DataRows(recs) == [i \in 1..Len(recs) |-> DataRow(recs[i])]
AnnotationRows(recs, schema) == [i \in 1..Len(recs) |-> AnnotationRow(recs[i], schema)]

\* the Group Keys build() adds for the records it handles
small_udts(recs) == {small_udt(recs[i].bin_udt).v : i \in 1..Len(recs)}

\* index of the first annotation record whose uuid text uuid.UUID rejects, 0
\* when there is none
FirstBadUuid(recs) ==
    IF \A i \in 1..Len(recs) : UuidOk(recs[i].uuid) THEN 0
    ELSE CHOOSE i \in 1..Len(recs) :
            ~UuidOk(recs[i].uuid) /\ \A j \in 1..(i - 1) : UuidOk(recs[j].uuid)

\* the data part of build() with the Group Key of every record pulled added
\* to the catalog, a caller-supplied one included
DataPhase_always_insert(provider, catalog, build_stats, fs, size) ==
    IF provider = <<>>
    THEN [opened |-> FALSE, catalog |-> catalog, fs |-> fs, log |-> <<"no_raw_data">>]
    ELSE LET batches == Batches(provider, size)
             written == [i \in 1..Len(batches) |-> DataRows(batches[i])]
         IN  [opened |-> TRUE,
              catalog |-> IF catalog.kind = "set"
                          THEN CatalogSet(catalog.set \cup small_udts(provider))
                          ELSE CatalogList(catalog.list
                                    \o [i \in 1..Len(provider) |->
                                            small_udt(provider[i].bin_udt).v]),
              fs |-> [fs EXCEPT ![DataOutUri] = [NewWriter EXCEPT !.row_groups = written]],
              log |-> <<"open_data">> \o [i \in 1..Len(batches) |-> "write_data"]]

\* the data part of build(), lines 103-193, at a batch size
DataPhase(provider, catalog, build_stats, fs, size) ==
    IF provider = <<>>
    THEN [opened |-> FALSE, catalog |-> catalog, fs |-> fs, log |-> <<"no_raw_data">>]
    ELSE LET batches == Batches(provider, size)
             written == [i \in 1..Len(batches) |-> DataRows(batches[i])]
         IN  [opened |-> TRUE,
              catalog |-> IF build_stats
                          THEN CatalogSet(catalog.set \cup small_udts(provider))
                          ELSE catalog,
              fs |-> [fs EXCEPT ![DataOutUri] = [NewWriter EXCEPT !.row_groups = written]],
              log |-> <<"open_data">> \o [i \in 1..Len(batches) |-> "write_data"]]

\* the annotation part of build(), lines 195-295, at a batch size.  raised is
\* the exception that leaves build(), rest what the provider still holds
AnnotationPhase(provider, catalog, build_stats, data_opened, fs, size, fields, discarded) ==
    IF provider = <<>>
    THEN [opened |-> FALSE, raised |-> None, rest |-> <<>>, catalog |-> catalog, fs |-> fs,
          log |-> <<"no_annotations">>]
    ELSE IF ~data_opened \/ (discarded # <<>> /\ fields = <<>>)
    THEN [opened |-> FALSE, raised |-> Raise("UnboundLocalError"), rest |-> Tail(provider),
          catalog |-> catalog, fs |-> fs, log |-> <<>>]
    ELSE LET bad == FirstBadUuid(provider)
             schema == SchemaColumns(fields, discarded)
             first == Min(size, Len(provider))
             \* from_pydict finds no list for a column of the schema
             missing == /\ \E c \in 1..Len(schema) : schema[c] \notin BatchKeys(fields, discarded)
                        /\ (bad = 0 \/ bad > first)
             handled == IF missing THEN SubSeq(provider, 1, first)
                        ELSE IF bad = 0 THEN provider ELSE SubSeq(provider, 1, bad)
             batches == IF missing THEN <<>>
                        ELSE IF bad = 0 THEN Batches(provider, size)
                        ELSE [i \in 1..((bad - 1) \div size) |->
                                SubSeq(provider, (i - 1) * size + 1, i * size)]
             written == [i \in 1..Len(batches) |-> AnnotationRows(batches[i], schema)]
         IN  [opened |-> TRUE,
              raised |-> IF missing THEN Raise("KeyError")
                         ELSE IF bad = 0 THEN None ELSE Raise("ValueError"),
              rest |-> SubSeq(provider, Len(handled) + 1, Len(provider)),
              catalog |-> IF build_stats
                          THEN CatalogSet(catalog.set \cup small_udts(handled))
                          ELSE catalog,
              fs |-> [fs EXCEPT ![AnnotationOutUri] =
                                    [NewWriter EXCEPT !.row_groups = written,
                                                      !.schema = schema]],
              log |-> <<"open_annotation">> \o [i \in 1..Len(batches) |-> "write_annotation"]]

\* the end of build(): lines 297-313, both files stamped with the one catalog
Finalize(data_opened, annotation_opened, catalog, order, fs) ==
    [u \in DOMAIN fs |->
        IF u = DataOutUri /\ data_opened
        THEN CloseData(fs[u], Join(catalog, order))
        ELSE IF u = AnnotationOutUri /\ annotation_opened
        THEN CloseAnnotation(fs[u], Join(catalog, order))
        ELSE fs[u]]

\* a finalization that closes the data writer before attaching its metadata
FinalizeLog_close_first(data_opened, annotation_opened) ==
    (IF data_opened THEN <<"close_data", "metadata_data">> ELSE <<>>)
    \o (IF annotation_opened THEN <<"metadata_annotation", "close_annotation">> ELSE <<>>)

\* the steps of lines 297-313 in the order the code takes them
FinalizeLog(data_opened, annotation_opened) ==
    (IF data_opened THEN <<"metadata_data", "close_data">> ELSE <<>>)
    \o (IF annotation_opened THEN <<"metadata_annotation", "close_annotation">> ELSE <<>>)

\* ------------------------------------------------------------------------
\* Records and identifiers given to the builder and to the queries
\* ------------------------------------------------------------------------
\* group 1: its group-level name and two of its items; group 2: its
\* group-level name and one item
NameG1 == CanonicalName(<<118>>, <<109>>, <<115>>, Epoch5, <<>>)
NameI11 == CanonicalName(<<118>>, <<109>>, <<115>>, Epoch5, <<(<<49>>)>>)
NameI12 == CanonicalName(<<118>>, <<109>>, <<115>>, Epoch5, <<(<<50>>)>>)
NameG2 == CanonicalName(<<118>>, <<109>>, <<116>>, Epoch5, <<>>)
NameI21 == CanonicalName(<<118>>, <<109>>, <<116>>, Epoch5, <<(<<49>>)>>)

QueryUdts == {NameG1, NameI11, NameI12, NameG2, NameI21}

\* the queries put to a Deposit: every identifier, by Compact Key and by
\* full string
Queries == QueryUdts \X BOOLEAN

\* names of custom fields, and the values looked for in them
FieldLabel == <<108, 97, 98, 101, 108>>     \* "label"
FieldTaxon == <<116, 97, 120, 111, 110>>    \* "taxon"
FieldQueries == {FieldLabel, FieldTaxon} \X {Float(1), Float(2), Float(9)}

\* data records built with no sha256, with the digest of the payload as
\* bytes and as hex text, and with a digest of other content
DataMaster ==
    LET ArrayPayload == NdArray(<<1, 513>>)
        FilePayload == BufferedIO(<<7, 8, 9>>)
        StaleDigest == Bytes([i \in 1..32 |-> 0])
    IN  <<DataRecord(NameG1, ArrayPayload, OctetStream, None),
          DataRecord(NameI11, FilePayload, "image/png", Bytes(Sha256(FilePayload.v))),
          DataRecord(NameI12, ArrayPayload, OctetStream, StaleDigest),
          DataRecord(NameI21, ArrayPayload, OctetStream,
                     Str(Hex(Sha256(ToBytes(ArrayPayload.v)))))>>

\* an annotation of an item of each group, and one built without a uuid
AnnotationMaster ==
    <<AnnotationRecord(NameI11, 1, <<>>, <<>>), AnnotationRecord(NameI21, 2, <<>>, <<>>),
      AnnotationRecord(NameI12, 0, <<>>, <<>>)>>

\* the elements of master at the indices idx, in the order of master
RECURSIVE Pick(_, _, _)
Pick(master, idx, i) ==
    IF i > Len(master) THEN <<>>
    ELSE (IF i \in idx THEN <<master[i]>> ELSE <<>>) \o Pick(master, idx, i + 1)

SubSequences(master, max) ==
    {Pick(master, idx, 1) : idx \in {I \in SUBSET (1..Len(master)) : Cardinality(I) <= max}}

\* longest data source, longest annotation source, longest catalog built
\* with add_udt, and the number of build() calls on the builder
MaxData == 3
MaxAnnotations == 2
MaxCatalog == 1
MaxBuilds == 2

\* the number of queries put to a Deposit between two calls that open files
MaxQueries == 1

\* the most custom fields and the most discard fields registered
MaxFields == 2
MaxDiscardFields == 1

\* the number of set_deposit_files calls on one Deposit object, and the
\* longest list of files given to one call
MaxOpens == 2
MaxFiles == 2

DataSources == SubSequences(DataMaster, MaxData)
AnnotationSources == SubSequences(AnnotationMaster, MaxAnnotations)

\* the catalog handed to set_compact_binary_udts: one Item Key
SuppliedCatalogs == {<<binary_udt(NameI21).v>>}

\* identifiers handed to add_udt
AddedUdts == {NameI11, NameG2}

AllGroupKeys == {small_udt(binary_udt(n)).v : n \in QueryUdts}
AllOrders == UNION {Orders(S) : S \in SUBSET AllGroupKeys}

\* ------------------------------------------------------------------------
\* The builder, the files and the Deposit under query
\* ------------------------------------------------------------------------
VARIABLES data_provider, annotation_provider, dataset_compact_udts, custom_fields,
          custom_discarded_fields, fs, deposit, built, result, queries

fvars == <<custom_fields, custom_discarded_fields>>

bvars == <<data_provider, annotation_provider, dataset_compact_udts, fvars, fs, deposit,
           built, result, queries>>

Uris == {DataOutUri, AnnotationOutUri}

NotBuilt ==
    [count |-> 0, build_stats |-> FALSE, raised |-> None, data |-> <<>>,
     annotations |-> <<>>, data_opened |-> FALSE, annotation_opened |-> FALSE,
     log |-> <<>>]

NoResult == [op |-> "none", udt |-> None, full_string_match |-> FALSE,
             value |-> QueryValue("None", <<>>)]

\* DepositBuilder(), no file at the output locations, no Deposit
InitBuilder ==
    /\ data_provider = <<>>
    /\ annotation_provider = <<>>
    /\ dataset_compact_udts = CatalogNone
    /\ custom_fields = <<>>
    /\ custom_discarded_fields = <<>>
    /\ fs = [u \in Uris |-> AbsentFile]
    /\ deposit = [origin |-> "none", obj |-> EmptyDeposit, opens |-> 0]
    /\ built = NotBuilt
    /\ result = NoResult
    /\ queries = 0

\* the specifications that follow one build() configure the builder before
\* its first build()
Unbuilt == built.count = 0

set_data_provider(iterable) ==
    /\ data_provider' = iterable
    /\ UNCHANGED <<fvars, annotation_provider, dataset_compact_udts, fs, deposit, built, result,
                   queries>>

set_annotation_provider(iterable) ==
    /\ annotation_provider' = iterable
    /\ UNCHANGED <<fvars, data_provider, dataset_compact_udts, fs, deposit, built, result,
                   queries>>

set_compact_binary_udts(udts) ==
    /\ built.count = 0
    /\ dataset_compact_udts' = CatalogList(udts)
    /\ UNCHANGED <<fvars, data_provider, annotation_provider, fs, deposit, built, result,
                   queries>>

add_udt(udt) ==
    /\ built.count = 0
    /\ dataset_compact_udts' =
            CatalogList(Append(dataset_compact_udts.list, small_udt(binary_udt(udt)).v))
    /\ UNCHANGED <<fvars, data_provider, annotation_provider, fs, deposit, built, result,
                   queries>>

\* register_field(field_name): the dtype is the default, float
register_field(field_name) ==
    /\ built.count = 0
    /\ Len(custom_fields) < MaxFields
    /\ custom_fields' = Append(custom_fields, field_name)
    /\ UNCHANGED <<custom_discarded_fields, data_provider, annotation_provider,
                   dataset_compact_udts, fs, deposit, built, result, queries>>

register_discard_field(field_name) ==
    /\ built.count = 0
    /\ Len(custom_discarded_fields) < MaxDiscardFields
    /\ custom_discarded_fields' = Append(custom_discarded_fields, field_name)
    /\ UNCHANGED <<custom_fields, data_provider, annotation_provider, dataset_compact_udts,
                   fs, deposit, built, result, queries>>

\* DepositBuilder.build(): the data part, the annotation part, the
\* finalization of the opened writers and the Deposit opened over both
\* output locations.  order is the order in which b"".join iterates the
\* catalog set.  An exception of the annotation part leaves build() before
\* any file is finalized.  On return the caller holds the Deposit returned
BuildAt(order, size) ==
    LET build_stats == dataset_compact_udts.kind = "None"
        catalog0 == IF build_stats THEN CatalogSet({}) ELSE dataset_compact_udts
    IN  /\ built.count < MaxBuilds
        /\ \E dp \in {DataPhase(data_provider, catalog0, build_stats, fs, size)} :
           \E ap \in {AnnotationPhase(annotation_provider, dp.catalog, build_stats,
                                      dp.opened, dp.fs, size, custom_fields,
                                      custom_discarded_fields)} :
           \E fin \in {Finalize(dp.opened, ap.opened, ap.catalog, order, ap.fs)} :
           \E out \in {set_deposit_files(EmptyDeposit, <<DataOutUri, AnnotationOutUri>>,
                                         fin)} :
                /\ order \in Orders(ap.catalog.set)
                /\ data_provider' = <<>>
                /\ annotation_provider' = ap.rest
                /\ dataset_compact_udts' = ap.catalog
                /\ fs' = IF IsRaise(ap.raised) THEN ap.fs ELSE fin
                /\ deposit' = IF IsRaise(ap.raised) \/ IsRaise(out.raised) THEN deposit
                              ELSE [origin |-> "build", obj |-> out.dep, opens |-> 1]
                /\ built' = [count |-> built.count + 1, build_stats |-> build_stats,
                             raised |-> IF IsRaise(ap.raised) THEN ap.raised
                                        ELSE out.raised,
                             data |-> data_provider, annotations |-> annotation_provider,
                             data_opened |-> dp.opened, annotation_opened |-> ap.opened,
                             log |-> dp.log \o ap.log
                                     \o (IF IsRaise(ap.raised) THEN <<>>
                                         ELSE FinalizeLog(dp.opened, ap.opened))]
                /\ result' = NoResult
                /\ queries' = 0
                /\ UNCHANGED fvars

\* build() with the batch size scaled to the sources of the model
Build(order) == BuildAt(order, data_batch_size)

\* what a call of set_deposit_files leaves for the caller: the exception,
\* if any, and the Deposit as it was before the call
OpenResult(parquet_uris, before, raised) ==
    [op |-> "set_deposit_files", udt |-> None, full_string_match |-> FALSE,
     value |-> QueryValue(raised.t, <<>>), parquet_uris |-> parquet_uris,
     before |-> before]

\* d = Deposit(); d.set_deposit_files(parquet_uris)
OpenDeposit(parquet_uris) ==
    \E o \in {set_deposit_files(EmptyDeposit, parquet_uris, fs)} :
        /\ built.count > 0
        /\ deposit' = [origin |-> "open", obj |-> o.dep, opens |-> 1]
        /\ result' = OpenResult(parquet_uris, EmptyDeposit, o.raised)
        /\ queries' = 0
        /\ UNCHANGED <<fvars, data_provider, annotation_provider, dataset_compact_udts, fs, built>>

\* d.set_deposit_files(parquet_uris) on the Deposit held
SetDepositFiles(parquet_uris) ==
    \E o \in {set_deposit_files(deposit.obj, parquet_uris, fs)} :
        /\ deposit.origin # "none"
        /\ deposit.opens < MaxOpens
        /\ deposit' = [deposit EXCEPT !.obj = o.dep, !.opens = @ + 1]
        /\ result' = OpenResult(parquet_uris, deposit.obj, o.raised)
        /\ queries' = 0
        /\ UNCHANGED <<fvars, data_provider, annotation_provider, dataset_compact_udts, fs, built>>

GetDataRecord(udt, full_string_match) ==
    /\ deposit.origin # "none"
    /\ queries < MaxQueries
    /\ queries' = queries + 1
    /\ result' = [op |-> "get_data_record", udt |-> udt,
                  full_string_match |-> full_string_match,
                  value |-> get_data_record(deposit.obj, fs, udt, full_string_match)]
    /\ UNCHANGED <<fvars, data_provider, annotation_provider, dataset_compact_udts, fs, deposit,
                   built>>

GetAnnotationRecords(udt, full_string_match) ==
    /\ deposit.origin # "none"
    /\ queries < MaxQueries
    /\ queries' = queries + 1
    /\ result' = [op |-> "get_annotation_records", udt |-> udt,
                  full_string_match |-> full_string_match,
                  value |-> get_annotation_records(deposit.obj, fs, udt, full_string_match)]
    /\ UNCHANGED <<fvars, data_provider, annotation_provider, dataset_compact_udts, fs, deposit,
                   built>>

GetPrefixedUdts(udt, full_string_match) ==
    /\ deposit.origin # "none"
    /\ queries < MaxQueries
    /\ queries' = queries + 1
    /\ result' = [op |-> "get_prefixed_udts", udt |-> udt,
                  full_string_match |-> full_string_match,
                  value |-> get_prefixed_udts(deposit.obj, fs, udt, full_string_match)]
    /\ UNCHANGED <<fvars, data_provider, annotation_provider, dataset_compact_udts, fs, deposit,
                   built>>

FindAnnotationRecordMatches(field_name, match_value) ==
    /\ deposit.origin # "none"
    /\ queries < MaxQueries
    /\ queries' = queries + 1
    /\ result' = [op |-> "find_annotation_record_matches", udt |-> None,
                  full_string_match |-> FALSE,
                  value |-> find_annotation_record_matches(deposit.obj, fs, field_name,
                                                           match_value),
                  field_name |-> field_name, match_value |-> match_value]
    /\ UNCHANGED <<fvars, data_provider, annotation_provider, dataset_compact_udts, fs,
                   deposit, built>>

\* ------------------------------------------------------------------------
\* The codec applied to an identifier: vals[1] is the input, vals[i + 1] the
\* value returned by the call ops[i] on vals[i]
\* ------------------------------------------------------------------------
VARIABLES ops, vals

cvars == <<ops, vals>>

\* longest chain of calls applied to one input
MaxCalls == 2

CodecIdle == ops = <<>> /\ vals = <<None>>

CanCall == Len(ops) < MaxCalls /\ ~IsRaise(vals[Len(vals)]) /\ vals[Len(vals)] # None

CallBinaryUdt ==
    /\ CanCall
    /\ ops' = Append(ops, "binary_udt")
    /\ vals' = Append(vals, binary_udt(vals[Len(vals)]))
    /\ UNCHANGED bvars

CallStringUdt ==
    /\ CanCall
    /\ ops' = Append(ops, "string_udt")
    /\ vals' = Append(vals, string_udt(vals[Len(vals)]))
    /\ UNCHANGED bvars

CallSmallUdt ==
    /\ CanCall
    /\ ops' = Append(ops, "small_udt")
    /\ vals' = Append(vals, small_udt(vals[Len(vals)]))
    /\ UNCHANGED bvars

InitCodec == ops = <<>> /\ vals \in {<<x>> : x \in CodecInputs} /\ InitBuilder

NextCodec == CallBinaryUdt \/ CallStringUdt \/ CallSmallUdt

vars == <<cvars, bvars>>

SpecCodec == InitCodec /\ [][NextCodec]_vars

\* ------------------------------------------------------------------------
\* One builder from its construction: configuration, build(), then queries
\* on the Deposit build() returned or on one opened over the data file
\* ------------------------------------------------------------------------
Init == InitBuilder /\ CodecIdle

Next ==
    \/ \E src \in DataSources : Unbuilt /\ set_data_provider(src) /\ UNCHANGED cvars
    \/ \E src \in AnnotationSources :
            Unbuilt /\ set_annotation_provider(src) /\ UNCHANGED cvars
    \/ \E udts \in SuppliedCatalogs : set_compact_binary_udts(udts) /\ UNCHANGED cvars
    \/ \E udt \in AddedUdts :
            Len(dataset_compact_udts.list) < MaxCatalog /\ add_udt(udt) /\ UNCHANGED cvars
    \/ \E order \in AllOrders : Build(order) /\ UNCHANGED cvars
    \/ OpenDeposit(<<DataOutUri>>) /\ UNCHANGED cvars
    \/ \E q \in Queries : GetDataRecord(q[1], q[2]) /\ UNCHANGED cvars
    \/ \E q \in Queries : GetAnnotationRecords(q[1], q[2]) /\ UNCHANGED cvars
    \/ \E q \in Queries : GetPrefixedUdts(q[1], q[2]) /\ UNCHANGED cvars

Spec == Init /\ [][Next]_vars

\* ------------------------------------------------------------------------
\* One Deposit over files already on disk: set_deposit_files, then queries
\* ------------------------------------------------------------------------
DataUriA == "a.parquet"
DataUriB == "b.parquet"
AnnotationUriN == "n.parquet"
AnnotationUriM == "m.parquet"
RoiUri == "roi.parquet"
PlainUri == "plain.parquet"

OpenUris == {DataUriA, DataUriB, AnnotationUriN, AnnotationUriM, RoiUri, PlainUri}

\* a DATA file and an ANNOTATION file as a builder finalizes them
DataFile(recs, catalog) ==
    CloseData(WriteBatch(NewWriter, DataRows(recs)), Flatten(catalog))

AnnotationFile(recs, catalog, fields) ==
    CloseAnnotation(WriteBatch([NewWriter EXCEPT !.schema = SchemaColumns(fields, <<>>)],
                               AnnotationRows(recs, SchemaColumns(fields, <<>>))),
                    Flatten(catalog))

\* a parquet file of another producer: its metadata holds a data_type no
\* Deposit knows, or holds other keys and no data_type
ForeignFile(has_data_type, data_type) ==
    [state |-> "closed",
     metadata |-> [NoMetadata EXCEPT !.has_data_type = has_data_type,
                                     !.data_type = data_type],
     row_groups |-> <<>>, schema |-> <<>>]

\* two DATA files of different groups, two ANNOTATION files referencing the
\* group of the first, one with a column of labels and two annotations of
\* one item, one with no custom column, and two files no Deposit recognises
FilesOnDisk ==
    [u \in OpenUris |->
        IF u = DataUriA
        THEN DataFile(<<DataMaster[1], DataMaster[2]>>,
                      <<small_udt(binary_udt(NameG1)).v>>)
        ELSE IF u = DataUriB
        THEN DataFile(<<DataMaster[4]>>, <<small_udt(binary_udt(NameI21)).v>>)
        ELSE IF u = AnnotationUriN
        THEN AnnotationFile(<<AnnotationRecord(NameI11, 1, FieldLabel :> Float(1), <<>>),
                              AnnotationRecord(NameI11, 2, FieldLabel :> Float(2), <<>>),
                              AnnotationRecord(NameI12, 3, FieldLabel :> Float(1), <<>>)>>,
                            <<small_udt(binary_udt(NameI11)).v>>, <<FieldLabel>>)
        ELSE IF u = AnnotationUriM
        THEN AnnotationFile(<<AnnotationRecord(NameI11, 4, <<>>, <<>>)>>,
                            <<small_udt(binary_udt(NameI11)).v>>, <<>>)
        ELSE IF u = RoiUri THEN ForeignFile(TRUE, "CRAB_ROI_V1")
        ELSE ForeignFile(FALSE, "")]

\* the lists given to set_deposit_files: up to MaxFiles different files
FileLists ==
    {l \in UNION {[1..n -> OpenUris] : n \in 1..MaxFiles} :
        \A i, j \in 1..Len(l) : i # j => l[i] # l[j]}

\* Deposit() over the files on disk
InitOpen ==
    /\ CodecIdle
    /\ data_provider = <<>>
    /\ annotation_provider = <<>>
    /\ dataset_compact_udts = CatalogNone
    /\ custom_fields = <<>>
    /\ custom_discarded_fields = <<>>
    /\ fs = FilesOnDisk
    /\ deposit = [origin |-> "open", obj |-> EmptyDeposit, opens |-> 0]
    /\ built = NotBuilt
    /\ result = NoResult
    /\ queries = 0

NextOpen ==
    \/ \E l \in FileLists : SetDepositFiles(l) /\ UNCHANGED cvars
    \/ \E q \in Queries : GetDataRecord(q[1], q[2]) /\ UNCHANGED cvars
    \/ \E q \in Queries : GetAnnotationRecords(q[1], q[2]) /\ UNCHANGED cvars
    \/ \E q \in Queries : GetPrefixedUdts(q[1], q[2]) /\ UNCHANGED cvars
    \/ \E q \in FieldQueries : FindAnnotationRecordMatches(q[1], q[2]) /\ UNCHANGED cvars

SpecOpen == InitOpen /\ [][NextOpen]_vars

\* ------------------------------------------------------------------------
\* One Deposit over the files on disk, queried with every form of the
\* identifier of one item: Canonical Name, Compact Hex, the Compact Keys,
\* and byte strings that are no Compact Key
\* ------------------------------------------------------------------------
IdentifierForms ==
    {NameI11, string_udt(binary_udt(NameI11)), string_udt(small_udt(binary_udt(NameI11))),
     binary_udt(NameI11), small_udt(binary_udt(NameI11)), Bytes(<<5>>), Bytes(<<>>)}

FormQueries == IdentifierForms \X BOOLEAN

NextForms ==
    \/ \E l \in FileLists : SetDepositFiles(l) /\ UNCHANGED cvars
    \/ \E q \in FormQueries : GetDataRecord(q[1], q[2]) /\ UNCHANGED cvars
    \/ \E q \in FormQueries : GetAnnotationRecords(q[1], q[2]) /\ UNCHANGED cvars
    \/ \E q \in FormQueries : GetPrefixedUdts(q[1], q[2]) /\ UNCHANGED cvars

SpecForms == InitOpen /\ [][NextForms]_vars

\* ------------------------------------------------------------------------
\* One builder with custom fields and discard fields registered: build()
\* over one data record and annotations that carry values and flags, then
\* queries on the Deposit build() returned
\* ------------------------------------------------------------------------
FlagBlurry == <<98, 108, 117, 114, 114, 121>>     \* "blurry"

\* annotations of one item: labelled and flagged twice over, and plain
FieldAnnotationMaster ==
    <<AnnotationRecord(NameI11, 1, FieldLabel :> Float(1), <<FlagBlurry, FieldLabel>>),
      AnnotationRecord(NameI11, 2, <<>>, <<>>),
      AnnotationRecord(NameI11, 3, FieldLabel :> Float(2), <<>>)>>

NextFields ==
    \/ \E f \in {FieldLabel, FieldTaxon} : register_field(f) /\ UNCHANGED cvars
    \/ \E d \in {FlagBlurry, FieldLabel} : register_discard_field(d) /\ UNCHANGED cvars
    \/ Unbuilt /\ set_data_provider(<<DataMaster[2]>>) /\ UNCHANGED cvars
    \/ \E src \in SubSequences(FieldAnnotationMaster, MaxAnnotations) :
            Unbuilt /\ set_annotation_provider(src) /\ UNCHANGED cvars
    \/ \E order \in AllOrders : Build(order) /\ UNCHANGED cvars
    \/ \E q \in Queries : GetAnnotationRecords(q[1], q[2]) /\ UNCHANGED cvars
    \/ \E q \in FieldQueries : FindAnnotationRecordMatches(q[1], q[2]) /\ UNCHANGED cvars

SpecFields == Init /\ [][NextFields]_vars

\* ------------------------------------------------------------------------
\* One builder at the batch size of the code: build() over a data source of
\* up to MaxRecords records and no annotations
\* ------------------------------------------------------------------------
MaxRecords == 130

\* a data source yielding n records
LongSource(n) == [i \in 1..n |-> DataMaster[2]]

LongSources == {LongSource(n) : n \in 0..MaxRecords}

NextBatch ==
    \/ \E src \in LongSources : Unbuilt /\ set_data_provider(src) /\ UNCHANGED cvars
    \/ \E order \in AllOrders : BuildAt(order, full_data_batch_size) /\ UNCHANGED cvars

SpecBatch == Init /\ [][NextBatch]_vars

\* ------------------------------------------------------------------------
\* One builder given new sources between its build() calls
\* ------------------------------------------------------------------------
\* a data record and an annotation of each group
RebuildData == {<<DataMaster[2]>>, <<DataMaster[4]>>}
RebuildAnnotations == {<<AnnotationMaster[1]>>, <<AnnotationMaster[2]>>}

NextRebuild ==
    \/ \E src \in RebuildData : set_data_provider(src) /\ UNCHANGED cvars
    \/ \E src \in RebuildAnnotations : set_annotation_provider(src) /\ UNCHANGED cvars
    \/ \E order \in AllOrders : Build(order) /\ UNCHANGED cvars

SpecRebuild == Init /\ [][NextRebuild]_vars

\* ------------------------------------------------------------------------
\* One builder whose catalog is made by add_udt, with identifiers of one
\* group added twice: build() over records of that group, then queries on
\* the Deposit build() returned
\* ------------------------------------------------------------------------
\* longest catalog built with add_udt here
MaxAdded == 2

RepeatedUdts == {NameI11, NameI12, NameI21}

NextRepeat ==
    \/ \E udt \in RepeatedUdts :
            Len(dataset_compact_udts.list) < MaxAdded /\ add_udt(udt) /\ UNCHANGED cvars
    \/ Unbuilt /\ set_data_provider(<<DataMaster[2], DataMaster[3]>>) /\ UNCHANGED cvars
    \/ Unbuilt /\ set_annotation_provider(<<AnnotationMaster[1]>>) /\ UNCHANGED cvars
    \/ \E order \in AllOrders : Build(order) /\ UNCHANGED cvars
    \/ \E q \in Queries : GetDataRecord(q[1], q[2]) /\ UNCHANGED cvars
    \/ \E q \in Queries : GetAnnotationRecords(q[1], q[2]) /\ UNCHANGED cvars
    \/ \E q \in Queries : GetPrefixedUdts(q[1], q[2]) /\ UNCHANGED cvars

SpecRepeat == Init /\ [][NextRepeat]_vars

\* ------------------------------------------------------------------------
\* One DataRecord constructed from its arguments: vals[1] holds the
\* arguments, vals[2] what the constructor raised or left
\* ------------------------------------------------------------------------
RecordArgs ==
    [udt : {NameI11},
     data : {None, NdArray(<<1, 513>>), BufferedIO(<<7, 8, 9>>), Str(<<7>>)},
     data_uri : {None, Str(<<115, 51, 58, 47, 47, 98, 47, 107>>)},      \* "s3://b/k"
     mime_type : {None, Str(<<112, 110, 103>>)},
     domain_types : {None, List(<<1>>), List(<<1, 2>>), Str(<<109>>)},
     numerical_format : {None, Str(<<117, 105, 110, 116, 49, 54>>)},    \* "uint16"
     extents : {None, List(<<2>>)}]

Construct ==
    /\ ops = <<>>
    /\ ops' = <<"DataRecord">>
    /\ \E a \in {vals[1]} :
          vals' = <<a, DataRecordInit(a.udt, a.data, a.data_uri, a.mime_type,
                                      a.domain_types, a.numerical_format, a.extents)>>
    /\ UNCHANGED bvars

InitRecords == ops = <<>> /\ vals \in {<<a>> : a \in RecordArgs} /\ InitBuilder

NextRecords == Construct

SpecRecords == InitRecords /\ [][NextRecords]_vars

\* ------------------------------------------------------------------------
\* Claims on the codec (SpecCodec)
\* ------------------------------------------------------------------------
TagLen(x, tag, len) == IsBytes(x) /\ Len(x.v) = len /\ x.v[1] = tag

C9_HexRoundTrip ==
    (ops = <<"string_udt", "binary_udt">> /\ vals[1] \in CompactKeys) => vals[3] = vals[1]

C9_Witness ==
    /\ ops = <<"string_udt", "binary_udt">>
    /\ vals[1] \in ItemKeys
    /\ IsStr(vals[2])
    /\ vals[3] = vals[1]

\* C10: binary_udt and small_udt are idempotent: for every valid Canonical
\* Name or Compact Hex string n on which binary_udt returns, binary_udt of
\* the returned key is that key, and for every Compact Key k with tag 2 or 3,
\* small_udt(small_udt(k)) = small_udt(k).
C10_Idempotent ==
    /\ (ops = <<"binary_udt", "binary_udt">> /\ vals[1] \in CanonicalNames \cup HexNames)
            => (IsBytes(vals[2]) /\ vals[3] = vals[2])
    /\ (ops = <<"small_udt", "small_udt">> /\ vals[1] \in CompactKeys)
            => (IsBytes(vals[2]) /\ vals[3] = vals[2])

C10_Witness ==
    \/ /\ ops = <<"binary_udt", "binary_udt">>
       /\ vals[1] \in ItemNames
       /\ TagLen(vals[3], 3, 29)
    \/ /\ ops = <<"binary_udt", "binary_udt">>
       /\ vals[1] \in UpperHexNames
       /\ TagLen(vals[3], 2, 21)

\* C11: for every Item Key k (tag 3, 29 bytes), small_udt(k) is the 21-byte
\* key whose tag byte is 2 and whose bytes 1..20 equal bytes 1..20 of k, the
\* instance digest (bytes 21..28) dropped; for every Group Key g,
\* small_udt(g) = g.
C11_GroupKeyOfItemKey ==
    /\ (Len(ops) >= 1 /\ ops[1] = "small_udt" /\ vals[1] \in ItemKeys)
            => /\ TagLen(vals[2], 2, 21)
               /\ \A i \in 2..21 : vals[2].v[i] = vals[1].v[i]
    /\ (Len(ops) >= 1 /\ ops[1] = "small_udt" /\ vals[1] \in GroupKeys)
            => vals[2] = vals[1]

C11_Witness ==
    /\ ops = <<"small_udt">>
    /\ vals[1] \in ItemKeys
    /\ TagLen(vals[2], 2, 21)
    /\ SubSeq(vals[2].v, 2, 21) = SubSeq(vals[1].v, 2, 21)

\* C13: binary_udt applied to a malformed string (a prefix that is neither
\* "udt1__" nor "udt1_", too few components, a non-numeric timestamp, a
\* Compact Hex field that is not valid hex of the stated width) fails with an
\* error and returns no value; binary_udt never returns for a string a byte
\* string whose length is neither 21 nor 29.
C13_MalformedFails ==
    (Len(ops) >= 1 /\ ops[1] = "binary_udt" /\ IsStr(vals[1]))
        => /\ vals[1] \in MalformedNames => IsRaise(vals[2])
           /\ IsBytes(vals[2]) => Len(vals[2].v) \in {21, 29}

\* the epoch seconds a Canonical Name carries
EpochOf(name) == ParseInt(Split(SliceFrom(name.v, 6), Sep2)[4])

\* n mod 2^48 as 6 bytes, big-endian
Low48BE(n) == Reverse([i \in 1..6 |-> IF i <= Len(n.mag) THEN n.mag[i] ELSE 0])

\* C14: for every Canonical Name with non-negative epoch seconds t of any
\* magnitude, binary_udt succeeds and bytes 15..20 of the Compact Key are the
\* 6-byte big-endian encoding of t mod 2^48: a value over 48 bits is
\* truncated silently and never rejected.
C14_TruncatesAnyEpoch ==
    (Len(ops) >= 1 /\ ops[1] = "binary_udt" /\ vals[1] \in CanonicalNames)
        => /\ IsBytes(vals[2])
           /\ Slice(vals[2].v, 15, 21) = Low48BE(EpochOf(vals[1]))

\* ------------------------------------------------------------------------
\* Claims on the builder and the Deposit (Spec)
\* ------------------------------------------------------------------------
\* the data file of build() is finalized and was written by a build() that
\* was given no catalog
BuiltWithStats == built.build_stats /\ fs[DataOutUri].state = "closed"

\* the Deposit held has the data file of build() opened
HoldsDataFile == deposit.origin # "none" /\ InSeq(DataOutUri, deposit.obj.parquet_files)

GroupKeyOf(rec) == small_udt(rec.bin_udt)

AllUuidsOk(recs) == \A i \in 1..Len(recs) : UuidOk(recs[i].uuid)

\* the state build() leaves when it ends
JustBuilt == built.count >= 1 /\ result = NoResult

\* C1: for every data record written by build() when no catalog was
\* supplied, get_data_record(identifier of the record) on a Deposit opened
\* over the finalized data file returns a Data Record whose Compact Key
\* equals the record's, whatever batch the record was written in.
C1_LookupFindsWritten ==
    (BuiltWithStats /\ deposit.origin = "open" /\ HoldsDataFile
        /\ result.op = "get_data_record")
    => \A i \in 1..Len(built.data) :
            built.data[i].udt = result.udt
            => /\ result.value.t = "DataRecord"
               /\ result.value.recs[1].bin_udt = built.data[i].bin_udt

C1_Witness ==
    /\ BuiltWithStats /\ deposit.origin = "open" /\ HoldsDataFile
    /\ Len(built.data) = 3
    /\ Len(fs[DataOutUri].row_groups) = 2
    /\ result.op = "get_data_record"
    /\ result.udt = built.data[3].udt
    /\ result.value.t = "DataRecord"
    /\ result.value.recs[1].bin_udt = built.data[3].bin_udt

\* C2: after build() with no caller-supplied catalog, the catalog of each
\* produced file is exactly the set of distinct Group Keys of the records
\* written to that file: each present once, none that no record of the file
\* has.
C2_CatalogExact ==
    (JustBuilt /\ built.count = 1 /\ built.build_stats)
    => \A u \in Uris :
            fs[u].state = "closed"
            => LET entries == CatalogChunks(fs[u])
                   rows == Flatten(fs[u].row_groups)
               IN  /\ \A i, j \in 1..Len(entries) : i # j => entries[i] # entries[j]
                   /\ {entries[i] : i \in 1..Len(entries)}
                        = {small_udt(rows[i].udt_bin).v : i \in 1..Len(rows)}

\* a group-level identifier among those put to the queries
GroupLevel(udt) == binary_udt(udt).v[1] = 2

\* C3: over a deposit built without a caller-supplied catalog,
\* get_prefixed_udts queried with the group-level Canonical Name of a group
\* returns the identifier of the group-level record if it was written and of
\* every item-level record of the group, also when no group-level record
\* was written.
C3_GroupQueryReturnsGroup ==
    (BuiltWithStats /\ HoldsDataFile /\ result.op = "get_prefixed_udts"
        /\ GroupLevel(result.udt))
    => /\ result.value.t = "list"
       /\ \A i \in 1..Len(built.data) :
            GroupKeyOf(built.data[i]) = binary_udt(result.udt)
            => InSeq(built.data[i].udt, result.value.recs)

C3_Witness ==
    /\ BuiltWithStats /\ HoldsDataFile
    /\ built.data = SubSeq(DataMaster, 2, 4)
    /\ result.op = "get_prefixed_udts"
    /\ result.udt = NameG1
    /\ result.value = QueryValue("list", <<NameI11, NameI12>>)

\* C4 (as the code has it): get_prefixed_udts(x) builds its predicate from
\* the Compact Key of x with the tag byte forced to 3.  For a group-level x
\* the result is the group-level record of the group and every item-level
\* record of it; for an item-level x the result is the records whose Compact
\* Key is the Item Key of x, so it depends on the instance component of x.
C4_PrefixOfCompactKey ==
    (BuiltWithStats /\ HoldsDataFile /\ result.op = "get_prefixed_udts"
        /\ ~result.full_string_match)
    => /\ result.value.t = "list"
       /\ {result.value.recs[i] : i \in 1..Len(result.value.recs)}
            = IF GroupLevel(result.udt)
              THEN {built.data[i].udt : i \in {j \in 1..Len(built.data) :
                        GroupKeyOf(built.data[j]) = binary_udt(result.udt)}}
              ELSE {built.data[i].udt : i \in {j \in 1..Len(built.data) :
                        built.data[j].bin_udt = binary_udt(result.udt)}}

C4_Witness ==
    /\ BuiltWithStats /\ HoldsDataFile
    /\ built.data = SubSeq(DataMaster, 1, 3)
    /\ result.op = "get_prefixed_udts"
    /\ ~result.full_string_match
    /\ result.udt = NameI11
    /\ result.value = QueryValue("list", <<NameI11>>)

\* C4 (as stated): for any identifier x, group-level or item-level, the
\* result of get_prefixed_udts(x) contains the group-level record of the
\* group of x if present and every item-level record of that group,
\* independent of the instance component of x.
C4_InstanceIndependent ==
    (BuiltWithStats /\ HoldsDataFile /\ result.op = "get_prefixed_udts"
        /\ ~result.full_string_match)
    => /\ result.value.t = "list"
       /\ \A i \in 1..Len(built.data) :
            GroupKeyOf(built.data[i]) = small_udt(binary_udt(result.udt))
            => InSeq(built.data[i].udt, result.value.recs)

\* C6: build() on a builder with exactly one empty source completes without
\* raising, finalizes the output file of the non-empty kind and creates no
\* file for the empty kind.
C6_OneEmptySource ==
    (JustBuilt /\ built.count = 1 /\ AllUuidsOk(built.annotations)
        /\ (built.data = <<>>) # (built.annotations = <<>>))
    => /\ ~IsRaise(built.raised)
       /\ fs[DataOutUri].state = IF built.data = <<>> THEN "absent" ELSE "closed"
       /\ fs[AnnotationOutUri].state
            = IF built.annotations = <<>> THEN "absent" ELSE "closed"

\* C7: build() returns a Deposit opened over exactly the files that build
\* produced: a kind whose source yielded no record contributes no file, and
\* with both sources empty build() returns a Deposit over zero files.
C7_ReturnsProducedFiles ==
    (JustBuilt /\ built.count = 1 /\ AllUuidsOk(built.annotations))
    => /\ ~IsRaise(built.raised)
       /\ deposit.origin = "build"
       /\ deposit.obj.parquet_files
            = (IF built.data = <<>> THEN <<>> ELSE <<DataOutUri>>)
              \o (IF built.annotations = <<>> THEN <<>> ELSE <<AnnotationOutUri>>)

\* ------------------------------------------------------------------------
\* Claims on opening files (SpecOpen)
\* ------------------------------------------------------------------------
\* whether a turn of set_deposit_files on the file finds data_type absent
\* or unknown
Unrecognised(file) ==
    \/ ~file.metadata.has_data_type
    \/ file.metadata.data_type \notin {TypeData, TypeAnnotation}

\* C5: if set_deposit_files is given a list in which any file, at any
\* position, has absent or unknown data_type metadata, the call fails with
\* the unrecognised-deposit-file error and the opened-file list, the DATA
\* and ANNOTATION index lists and the Group-Key map of the Deposit are as
\* before the call.
C5_AllOrNothing ==
    (/\ result.op = "set_deposit_files"
     /\ \E i \in 1..Len(result.parquet_uris) : Unrecognised(fs[result.parquet_uris[i]]))
    => /\ result.value.t = "RuntimeError"
       /\ deposit.obj.parquet_files = result.before.parquet_files
       /\ deposit.obj.data_indicies = result.before.data_indicies
       /\ deposit.obj.annotation_indicies = result.before.annotation_indicies
       /\ deposit.obj.udt_map = result.before.udt_map

\* the rows of the data file of build()
StoredDataRows == Flatten(fs[DataOutUri].row_groups)

\* C15: for every Data Record with an in-memory payload written by build(),
\* the content hash stored in the file equals SHA-256 of the stored payload
\* bytes, and the record get_data_record returns for its identifier has
\* as_bytes() equal to the original payload bytes and sha256() equal to
\* SHA-256 of the original payload, whether or not the producer passed a
\* sha256 argument.
C15_HashIntegrity ==
    /\ \A k \in 1..Len(StoredDataRows) :
            StoredDataRows[k].sha256 = Sha256(StoredDataRows[k].data)
    /\ (HoldsDataFile /\ result.op = "get_data_record" /\ result.value.t = "DataRecord")
            => \A i \in 1..Len(built.data) :
                    built.data[i].bin_udt = result.value.recs[1].bin_udt
                    => /\ as_bytes(result.value.recs[1]) = as_bytes(built.data[i])
                       /\ sha256(result.value.recs[1])
                            = Bytes(Sha256(as_bytes(built.data[i]).v))

\* a build() call that starts with a catalog the caller supplied
BuildOverSupplied == built'.count = built.count + 1 /\ dataset_compact_udts.kind = "list"

\* C16: when the caller supplied a catalog (set_compact_binary_udts or
\* add_udt) before build(), build() inserts no Group Key of a written record
\* into it: the catalog stamped on each file build() finalizes is exactly the
\* caller-supplied sequence of entries, whatever records were written.
C16_SuppliedCatalogKept ==
    [][BuildOverSupplied
        => /\ dataset_compact_udts' = dataset_compact_udts
           /\ (built'.data_opened /\ fs'[DataOutUri].state = "closed")
                => fs'[DataOutUri].metadata.contains_udts
                        = Flatten(dataset_compact_udts.list)
           /\ (built'.annotation_opened /\ fs'[AnnotationOutUri].state = "closed")
                => fs'[AnnotationOutUri].metadata.references_udts
                        = Flatten(dataset_compact_udts.list)]_vars

\* a build() over a supplied catalog has written a record of a group the
\* catalog does not list, and both files carry the catalog as supplied
C16_Witness ==
    /\ built.count = 1 /\ ~built.build_stats
    /\ dataset_compact_udts.kind = "list" /\ dataset_compact_udts.list # <<>>
    /\ \E i \in 1..Len(built.data) :
            ~InSeq(GroupKeyOf(built.data[i]).v, dataset_compact_udts.list)
    /\ fs[DataOutUri].state = "closed" /\ fs[AnnotationOutUri].state = "closed"
    /\ fs[DataOutUri].metadata.contains_udts = Flatten(dataset_compact_udts.list)
    /\ fs[AnnotationOutUri].metadata.references_udts = Flatten(dataset_compact_udts.list)

\* the number of entries of the catalog of the builder
CatalogEntries ==
    IF dataset_compact_udts.kind = "set" THEN Cardinality(dataset_compact_udts.set)
    ELSE Len(dataset_compact_udts.list)

\* a catalog value of n entries of 21 bytes, each with the tag of a Group Key
GroupKeyCatalog(value, n) ==
    /\ Len(value) = 21 * n
    /\ \A k \in 1..n : value[21 * (k - 1) + 1] = 2

\* C17: in every file finalized by build(), the catalog metadata value has a
\* byte length of 21 times the number of catalog entries, and every 21-byte
\* slice of it is a Group Key (tag byte 2).
C17_CatalogOfGroupKeys ==
    /\ (built.count >= 1 /\ fs[DataOutUri].state = "closed")
            => GroupKeyCatalog(fs[DataOutUri].metadata.contains_udts, CatalogEntries)
    /\ (built.count >= 1 /\ fs[AnnotationOutUri].state = "closed")
            => GroupKeyCatalog(fs[AnnotationOutUri].metadata.references_udts,
                               CatalogEntries)

\* ------------------------------------------------------------------------
\* Claims on the annotation queries (SpecOpen)
\* ------------------------------------------------------------------------
\* the files of a type among those the Deposit has opened
OpenedUris(type) ==
    {u \in {deposit.obj.parquet_files[i] : i \in DOMAIN deposit.obj.parquet_files} :
        fs[u].metadata.data_type = type}

RowsOf(u) == Flatten(fs[u].row_groups)

\* the rows of the files, each named by file and position, and the row named
RowsIn(files) == UNION {{<<u, k>> : k \in DOMAIN RowsOf(u)} : u \in files}
RowAt(h) == RowsOf(h[1])[h[2]]

\* the list a query returned holds the records of the rows hits, each once
ReturnsRows(hits) ==
    /\ result.value.t = "list"
    /\ Len(result.value.recs) = Cardinality(hits)
    /\ {result.value.recs[i] : i \in DOMAIN result.value.recs}
            = {AnnotationRecordOfRow(RowAt(h)) : h \in hits}

\* C18: get_annotation_records(identifier) returns exactly the annotation
\* rows whose Compact Key equals binary_udt(identifier), taken from every
\* opened ANNOTATION file whose catalog contains the Group Key of the
\* identifier and from no DATA file; several rows of one identifier are all
\* returned.
C18_AnnotationsOfIdentifier ==
    (deposit.origin # "none" /\ result.op = "get_annotation_records"
        /\ ~result.full_string_match)
    => LET budt == binary_udt(result.udt)
           files == {u \in OpenedUris(TypeAnnotation) :
                        InSeq(small_udt(budt).v, Chunks21(fs[u].metadata.references_udts))}
       IN  ReturnsRows({h \in RowsIn(files) : RowAt(h).udt_bin = budt})

\* C19: find_annotation_record_matches(field, value) returns every row whose
\* column field_<field> equals value from every opened ANNOTATION file whose
\* schema declares that column, whatever the catalogs hold; files that do
\* not declare the column contribute nothing, and when no opened file
\* declares it the result is the empty list, not an error.
C19_FieldMatches ==
    (deposit.origin # "none" /\ result.op = "find_annotation_record_matches")
    => LET col == FieldPrefix \o result.field_name
           files == {u \in OpenedUris(TypeAnnotation) : InSeq(col, fs[u].schema)}
       IN  ReturnsRows({h \in RowsIn(files) :
                            ColumnValue(RowAt(h), col) = result.match_value})

\* ------------------------------------------------------------------------
\* Claims on the custom columns (SpecFields)
\* ------------------------------------------------------------------------
\* C20: for every discard-field name d registered with
\* register_discard_field before build(), the schema of the annotation file
\* build() writes has a column named discard_field_d, one per registered
\* name, and the discard flags of each written record are stored under that
\* name, for any number of registered value fields, none included.
C20_DiscardColumns ==
    (built.count >= 1 /\ built.data_opened /\ built.annotations # <<>>
        /\ AllUuidsOk(built.annotations))
    => \A j \in DOMAIN custom_discarded_fields :
        LET col == DiscardPrefix \o custom_discarded_fields[j]
            schema == fs[AnnotationOutUri].schema
            rows == RowsOf(AnnotationOutUri)
        IN  /\ fs[AnnotationOutUri].state = "closed"
            /\ Cardinality({c \in DOMAIN schema : schema[c] = col}) = 1
            /\ Len(rows) = Len(built.annotations)
            /\ \A k \in DOMAIN rows :
                    (ColumnValue(rows[k], col) = True)
                    <=> InSeq(custom_discarded_fields[j],
                              built.annotations[k].discard_field_list)

\* ------------------------------------------------------------------------
\* Claims on the batch size of the code (SpecBatch)
\* ------------------------------------------------------------------------
\* the write_batch calls the last build() made on the data file
DataWrites == Cardinality({i \in DOMAIN built.log : built.log[i] = "write_data"})

\* C12 as stated: a build over a data source of 130 records performs at
\* least 2 batch writes to the data file, the per-batch record count derived
\* from the 64 MiB target and the 32 KiB estimate being smaller than 130.
C12_TwoBatchesFor130 ==
    (built.count = 1 /\ Len(built.data) = 130)
        => DataWrites >= 2 /\ full_data_batch_size < 130

\* C12 amended: the per-batch record count derived from the 64 MiB target
\* and the 32 KiB estimate is 2048, and a build over a data source of 1 to
\* 2047 records, 130 among them, performs exactly one batch write to the
\* data file, which holds every record of the source.
C12_OneBatchBelow2048 ==
    /\ full_data_batch_size = 2048
    /\ (built.count = 1 /\ Len(built.data) \in 1..2047)
            => /\ DataWrites = 1
               /\ fs[DataOutUri].row_groups = <<DataRows(built.data)>>

C12_Witness ==
    /\ built.count = 1
    /\ Len(built.data) = 130
    /\ DataWrites = 1
    /\ Len(fs[DataOutUri].row_groups) = 1
    /\ Len(fs[DataOutUri].row_groups[1]) = 130

\* ------------------------------------------------------------------------
\* Claims on the construction of a DataRecord (SpecRecords)
\* ------------------------------------------------------------------------
Constructed == ops = <<"DataRecord">>

\* C21: constructing a Data Record fails with the missing-payload error
\* exactly when neither an in-memory payload nor an external-reference URI
\* is supplied; a record given no in-memory payload but an external-reference
\* URI, with extents, content type, numeric format and domain units supplied,
\* is constructed successfully.
C21_MissingPayload ==
    Constructed =>
        /\ (vals[2] = MissingPayload) <=> (vals[1].data = None /\ vals[1].data_uri = None)
        /\ (/\ vals[1].data = None /\ vals[1].data_uri # None
            /\ vals[1].extents # None /\ vals[1].mime_type # None
            /\ vals[1].numerical_format # None /\ vals[1].domain_types.t = "list")
               => vals[2].t = "DataRecord"

\* ------------------------------------------------------------------------
\* Claims on the form of the identifier of a query (SpecForms)
\* ------------------------------------------------------------------------
IdentifierQuery ==
    result.op \in {"get_data_record", "get_annotation_records", "get_prefixed_udts"}

\* C22: get_data_record, get_annotation_records and get_prefixed_udts called
\* in strict mode (full_string_match) with a raw binary Compact Key fail with
\* the ambiguous-identifier-form error, whatever files the Deposit holds and
\* whatever their rows are: no file is selected and no row group read before
\* it; called in strict mode with a Canonical Name or a Compact Hex string
\* they do not raise this error.
C22_StrictRejectsCompactKey ==
    (IdentifierQuery /\ result.full_string_match)
        => /\ IsBytes(result.udt) => result.value = QueryValue("RuntimeError", <<>>)
           /\ IsStr(result.udt) => result.value.t # "RuntimeError"

\* a strict query by the Compact Key of a stored record was refused on a
\* Deposit where the same query without strict mode returns the record
C22_Witness ==
    /\ result.op = "get_data_record" /\ result.full_string_match
    /\ result.udt = binary_udt(NameI11)
    /\ result.value.t = "RuntimeError"
    /\ get_data_record(deposit.obj, fs, result.udt, FALSE).t = "DataRecord"

\* ------------------------------------------------------------------------
\* Claims on the order of the steps of build() (Spec)
\* ------------------------------------------------------------------------
\* the positions of the log of the last build() that hold one of the steps
LogAt(steps) == {i \in 1..Len(built.log) : built.log[i] \in steps}

\* C23: the data output file is finalized (file-type tag, last-modified
\* stamp and catalog attached, writer closed) when the data source is
\* exhausted, before the annotation part opens its writer on the first
\* annotation record pulled; so after a build() that opened the data writer
\* the data file is closed, also when the annotation part raised.
C23_DataFinalizedFirst ==
    (built.count > 0 /\ built.data_opened)
        => /\ fs[DataOutUri].state = "closed"
           /\ LogAt({"close_data"}) # {}
           /\ \A i \in LogAt({"metadata_data", "close_data"}) :
              \A j \in LogAt({"open_annotation", "write_annotation"}) : i < j

\* the steps of one writer in the log of the last build(): opened once, its
\* batches, then its metadata, then its close, each once
WriterClosedOnce(open, write, metadata, close) ==
    /\ Cardinality(LogAt({open})) = 1
    /\ Cardinality(LogAt({metadata})) = 1
    /\ Cardinality(LogAt({close})) = 1
    /\ \A i \in LogAt({open}) : \A j \in LogAt({write, metadata, close}) : i < j
    /\ \A i \in LogAt({write}) : \A j \in LogAt({metadata, close}) : i < j
    /\ \A i \in LogAt({metadata}) : \A j \in LogAt({close}) : i < j

WriterUnused(open, write, metadata, close) == LogAt({open, write, metadata, close}) = {}

\* C24: in every build() that returns, each output writer that was opened
\* has its metadata attached and is closed exactly once, after its last
\* batch was written, and its file is left closed with its file-type tag; no
\* batch is written to a writer after it is closed; a writer is opened
\* exactly when its source was not empty, and a writer whose source was empty
\* is never opened, written to or closed.
C24_ClosedOnceAfterLastBatch ==
    (built.count > 0 /\ ~IsRaise(built.raised))
        => /\ built.data_opened <=> built.data # <<>>
           /\ built.annotation_opened <=> built.annotations # <<>>
           /\ IF built.data_opened
              THEN /\ WriterClosedOnce("open_data", "write_data", "metadata_data",
                                       "close_data")
                   /\ fs[DataOutUri].state = "closed"
                   /\ fs[DataOutUri].metadata.data_type = TypeData
              ELSE WriterUnused("open_data", "write_data", "metadata_data", "close_data")
           /\ IF built.annotation_opened
              THEN /\ WriterClosedOnce("open_annotation", "write_annotation",
                                       "metadata_annotation", "close_annotation")
                   /\ fs[AnnotationOutUri].state = "closed"
                   /\ fs[AnnotationOutUri].metadata.data_type = TypeAnnotation
              ELSE WriterUnused("open_annotation", "write_annotation",
                                "metadata_annotation", "close_annotation")

\* a build() over both sources returned after several data batches
C24_Witness ==
    /\ built.count > 0 /\ ~IsRaise(built.raised)
    /\ built.data_opened /\ built.annotation_opened
    /\ Cardinality(LogAt({"write_data"})) >= 2
    /\ Cardinality(LogAt({"close_data"})) = 1

\* ------------------------------------------------------------------------
\* Claims on what the Deposit reads and keeps (SpecOpen)
\* ------------------------------------------------------------------------
\* the files on disk with their row groups taken away
WithoutRows == [u \in DOMAIN fs |-> [fs[u] EXCEPT !.row_groups = <<>>]]

\* the files get_data_record read for the query last answered
LastReads ==
    LET reads == get_data_record_reads(deposit.obj, fs, result.udt, result.full_string_match)
    IN  {reads[i] : i \in DOMAIN reads}

HoldsGroupKey(u, udt) ==
    InSeq(small_udt(binary_udt(udt)).v, CatalogChunks(fs[u]))

\* C25: set_deposit_files reads only file metadata: it leaves the Deposit it
\* would leave were the files without rows.  get_data_record(identifier)
\* reads row groups only from DATA files whose catalog contains the Group
\* Key of the identifier, never from an ANNOTATION file or a file whose
\* catalog lacks that Group Key; it returns none when no catalog of an opened
\* file contains the Group Key; and it leaves the file list, the index lists
\* and the Group-Key map of the Deposit unchanged.
C25_ReadsOnlyCandidates ==
    /\ [](result.op = "set_deposit_files"
            => deposit.obj = set_deposit_files(result.before, result.parquet_uris,
                                               WithoutRows).dep)
    /\ [](result.op = "get_data_record"
            => /\ \A u \in LastReads : /\ fs[u].metadata.data_type = TypeData
                                       /\ HoldsGroupKey(u, result.udt)
               /\ (\A i \in DOMAIN deposit.obj.parquet_files :
                        ~HoldsGroupKey(deposit.obj.parquet_files[i], result.udt))
                    => result.value = QueryValue("None", <<>>))
    /\ [][(result'.op = "get_data_record" /\ queries' = queries + 1)
            => deposit' = deposit]_vars

\* the file at a file index in the list of opened files
FileAt(pfi) == fs[deposit.obj.parquet_files[pfi + 1]]
Opened(pfi) == pfi + 1 \in DOMAIN deposit.obj.parquet_files

\* every index of the Deposit names the file whose metadata produced it: an
\* index of data_indicies a DATA file, an index of annotation_indicies an
\* ANNOTATION file, an index of udt_map[k] a file whose catalog holds k; each
\* opened file is named by its own position in the list of its type and in
\* the list of every key of its catalog; and there are as many opened files
\* as recorded locations
IndexedRight ==
    LET dep == deposit.obj
        InList(pfi, l) == InSeq(pfi, l) /\ Opened(pfi)
    IN  /\ Len(dep.parquet_files) = Len(dep.parquet_uris)
        /\ \A i \in DOMAIN dep.data_indicies :
                /\ Opened(dep.data_indicies[i])
                /\ FileAt(dep.data_indicies[i]).metadata.data_type = TypeData
        /\ \A i \in DOMAIN dep.annotation_indicies :
                /\ Opened(dep.annotation_indicies[i])
                /\ FileAt(dep.annotation_indicies[i]).metadata.data_type = TypeAnnotation
        /\ \A k \in DOMAIN dep.udt_map : \A i \in DOMAIN dep.udt_map[k] :
                /\ Opened(dep.udt_map[k][i])
                /\ InSeq(k, CatalogChunks(FileAt(dep.udt_map[k][i])))
        /\ \A p \in DOMAIN dep.parquet_files :
                /\ IF FileAt(p - 1).metadata.data_type = TypeData
                   THEN InList(p - 1, dep.data_indicies)
                   ELSE InList(p - 1, dep.annotation_indicies)
                /\ \A c \in DOMAIN CatalogChunks(FileAt(p - 1)) :
                        /\ CatalogChunks(FileAt(p - 1))[c] \in DOMAIN dep.udt_map
                        /\ InList(p - 1, dep.udt_map[CatalogChunks(FileAt(p - 1))[c]])

\* a set_deposit_files call that raised nothing
SuccessfulOpen == deposit'.opens = deposit.opens + 1 /\ result'.value.t = "None"

\* C26: after any sequence of successful set_deposit_files calls on one
\* Deposit every file index stored in the Group-Key map and in the DATA and
\* ANNOTATION index lists identifies, in the list of opened files, the file
\* whose metadata produced that entry, and the number of opened files equals
\* the number of recorded locations: a successful call on a Deposit whose
\* indices are right leaves them right.
C26_IndicesNameTheirFiles == [][(SuccessfulOpen /\ IndexedRight) => IndexedRight']_vars

\* ------------------------------------------------------------------------
\* Claims on the batches of build() (Spec)
\* ------------------------------------------------------------------------
\* the batches written to a file are ceil(n / B) batches of 1 to B rows each
\* that together hold the rows in source order
BatchedInOrder(written, rows, B) ==
    /\ Len(written) = (Len(rows) + B - 1) \div B
    /\ \A i \in DOMAIN written : Len(written[i]) >= 1 /\ Len(written[i]) <= B
    /\ Flatten(written) = rows

\* the annotation part of the last build() ran to its end
AnnotationPartCompleted ==
    built.raised.t \notin {"ValueError", "KeyError", "UnboundLocalError"}

\* C27: for a non-empty source of n records and a per-batch record count B,
\* build() writes exactly ceil(n / B) batches to the file of that kind, each
\* holding between 1 and B records, in source order; no empty batch is ever
\* written, in particular when n is an exact multiple of B.
C27_NoEmptyBatch ==
    built.count > 0
        => /\ built.data # <<>>
                => BatchedInOrder(fs[DataOutUri].row_groups, DataRows(built.data),
                                  data_batch_size)
           /\ (built.annotations # <<>> /\ AnnotationPartCompleted)
                => BatchedInOrder(fs[AnnotationOutUri].row_groups,
                                  AnnotationRows(built.annotations, <<>>), data_batch_size)

\* ------------------------------------------------------------------------
\* Claims on the catalog over several builds (SpecRebuild)
\* ------------------------------------------------------------------------
\* the files the last build() produced: it opened their writer and closed it
ProducedUris ==
    {u \in Uris : /\ fs[u].state = "closed"
                  /\ IF u = DataOutUri THEN built.data_opened ELSE built.annotation_opened}

\* C28: on a DepositBuilder on which set_compact_binary_udts and add_udt are
\* never called, every build() accumulates the Group Keys of the records it
\* writes: the catalog of each file produced by a build(), the first or a
\* later one, contains the Group Key of every record written in that build.
C28_EveryBuildAccumulates ==
    (built.count > 0 /\ dataset_compact_udts.kind = "set")
        => \A u \in ProducedUris : \A w \in ProducedUris :
           \A k \in DOMAIN RowsOf(w) :
                InSeq(small_udt(RowsOf(w)[k].udt_bin).v, CatalogChunks(fs[u]))

\* ------------------------------------------------------------------------
\* Claims on a catalog that repeats a Group Key (SpecRepeat)
\* ------------------------------------------------------------------------
Occurrences(x, list) == Cardinality({i \in DOMAIN list : list[i] = x})

\* C29: in the merged Group-Key map of a Deposit each file index appears at
\* most once in the list of any Group Key, and get_annotation_records and
\* get_prefixed_udts return each stored row at most once: a value is in the
\* list returned no more often than there are rows holding it in the opened
\* files of the kind; also when the catalog of a file repeats a Group Key, as
\* after add_udt is called twice with identifiers of one group.
C29_EachFileOnce ==
    deposit.origin # "none"
        => /\ \A k \in DOMAIN deposit.obj.udt_map : \A pfi \in 0..MaxFiles :
                    Occurrences(pfi, deposit.obj.udt_map[k]) <= 1
           /\ (result.op = "get_prefixed_udts" /\ result.value.t = "list")
                => \A i \in DOMAIN result.value.recs :
                        Occurrences(result.value.recs[i], result.value.recs)
                            <= Cardinality({h \in RowsIn(OpenedUris(TypeData)) :
                                                RowAt(h).udt = result.value.recs[i]})
           /\ (result.op = "get_annotation_records" /\ result.value.t = "list")
                => \A i \in DOMAIN result.value.recs :
                        Occurrences(result.value.recs[i], result.value.recs)
                            <= Cardinality({h \in RowsIn(OpenedUris(TypeAnnotation)) :
                                                AnnotationRecordOfRow(RowAt(h))
                                                    = result.value.recs[i]})

\* ------------------------------------------------------------------------
\* Claims on the identifiers of a group (SpecOpen)
\* ------------------------------------------------------------------------
\* the files whose row groups get_prefixed_udts scans for the query last
\* answered: lines 179-182
ScannedForPrefix ==
    LET try_pfis == get_referencing_indicies(deposit.obj, binary_udt(result.udt))
    IN  {deposit.obj.parquet_files[try_pfis[i] + 1] :
            i \in {j \in DOMAIN try_pfis : InSeq(try_pfis[j], deposit.obj.data_indicies)}}

\* C30: every identifier returned by get_prefixed_udts(q) belongs to a row
\* of an opened DATA file whose Compact Key has the same Group Key as q: no
\* record of another group is returned, and no row of an ANNOTATION file is
\* scanned or returned, for group-level and item-level q alike.
C30_PrefixedWithinGroup ==
    (result.op = "get_prefixed_udts" /\ result.value.t = "list")
        => /\ \A u \in ScannedForPrefix : fs[u].metadata.data_type = TypeData
           /\ \A i \in DOMAIN result.value.recs :
              \E h \in RowsIn(OpenedUris(TypeData)) :
                    /\ RowAt(h).udt = result.value.recs[i]
                    /\ small_udt(RowAt(h).udt_bin) = small_udt(binary_udt(result.udt))

====
